---- MODULE Spec2Model ----
(***************************************************************************)
(* A model of geodrink's geospatial engine: the haversine distance, the     *)
(* point classifier and filter (processWaterPoint), the localStorage cache  *)
(* (CacheManager) and the query orchestrator (findWaterPoints).             *)
(*                                                                          *)
(* Numbers.  Latitudes and longitudes are integers in units of 1e-5 degree  *)
(* (48.00005 degrees is 4800005); distances are whole metres; times are     *)
(* milliseconds.  TLC has 32-bit integers and no floating point, so the     *)
(* trigonometry of calculateDistance is evaluated in fixed point.           *)
(***************************************************************************)
EXTENDS Integers, Sequences, FiniteSets, TLC

VARIABLES
    pwp,           \* one invocation of processWaterPoint: its arguments and its return value
    keys,          \* one pair of cache-key derivations: two bounding boxes, buffer, filter, keys
    localStorage,  \* window.localStorage: a function from key strings to items
    now,           \* Date.now(), in milliseconds
    pending,       \* findWaterPoints calls awaiting their fetch
    lastOp,        \* the operation that produced this state, with its arguments and result
    stored,        \* history: key -> the data and time of the last CacheManager.set that wrote it
    requests,      \* history: number of remote requests issued so far
    fw,            \* one findWaterPoints call on an empty cache: its arguments, the response, its return
    app,           \* the React application: App's state, the debounce timers, the handlers under way
    gpx,           \* one parseGPX call: the document and its return value
    geo,           \* one findDistanceAlongRoute call: the point, the route and its return value
    pos            \* the route and the Current Position of App, and the geolocation requests under way

vars == <<pwp, keys, localStorage, now, pending, lastOp, stored, requests, fw, app,
          gpx, geo, pos>>

(***************************************************************************)
(* JavaScript values                                                        *)
(***************************************************************************)
\* undefined: what tags.k evaluates to for a tag the record does not carry
Undefined == "<undefined>"
\* A nullable value (T | null) is a sequence of at most one element:
\* <<>> is null and <<v>> is the value v
Null == <<>>

\* truthiness of a string-or-undefined: undefined and "" are falsy
TruthyString(s) == s # Undefined /\ s # ""

Abs(x) == IF x < 0 THEN -x ELSE x
Min(a, b) == IF a < b THEN a ELSE b
Max(a, b) == IF a > b THEN a ELSE b

(***************************************************************************)
(* Geometry kernel: calculateDistance                                       *)
(***************************************************************************)
RECURSIVE SqrtIter(_, _)
\* Newton's iteration for the integer square root, from a guess r >= sqrt(n)
SqrtIter(n, r) ==
    LET next == (r + n \div r) \div 2
    IN  IF next >= r THEN r ELSE SqrtIter(n, next)

\* Math.sqrt on a non-negative integer, rounded down
Sqrt(n) == IF n <= 0 THEN 0 ELSE SqrtIter(n, n)

\* Math.cos(lat * Math.PI / 180) in thousandths, lat in 1e-5 degree:
\* the Taylor polynomial 1 - x^2/2 + x^4/24 - x^6/720 with x in milliradians
CosMilli(lat) ==
    LET x  == ((Abs(lat) \div 1000) * 17453) \div 100000
        x2 == (x * x) \div 1000
        x4 == (x2 * x2) \div 1000
        x6 == (x4 * x2) \div 1000
    IN  1000 - x2 \div 2 + x4 \div 24 - x6 \div 720

\* R * Math.PI / 180 for R = 6371000 m: metres per degree (111194.9 m)
MetersPerDegree == 111195

\* calculateDistance(lat1, lon1, lat2, lon2): the haversine distance in whole
\* metres.  For separations below 0.15 degree sin(x/2) is x/2 and
\* 2*atan2(sqrt(a), sqrt(1-a)) is 2*sqrt(a) to well under a metre, so R*c is
\* R * sqrt(dLat^2 + cos(lat1)*cos(lat2)*dLon^2); evaluated in 1e-5 degree and
\* converted to metres last.  Larger separations (every buffer is far below
\* them) are evaluated in 1e-3 degree up to 13 degrees, to within a
\* kilometre, and in 0.1 degree beyond, to within some hundred kilometres.
calculateDistance(lat1, lon1, lat2, lon2) ==
    LET dLat == lat2 - lat1
        dLon == lon2 - lon1
        unit == IF Abs(dLat) < 15000 /\ Abs(dLon) < 15000 THEN 1
                ELSE IF Abs(dLat) < 1300000 /\ Abs(dLon) < 1300000 THEN 100
                ELSE 10000
        a    == (dLat \div unit) * (dLat \div unit)
                  + (((Abs(dLon) \div unit) * CosMilli(lat1)) \div 1000)
                      * (((Abs(dLon) \div unit) * CosMilli(lat2)) \div 1000)
    IN  (Sqrt(a) * MetersPerDegree) \div (100000 \div unit)

(***************************************************************************)
(* Routes (GPXData) and raw records                                         *)
(***************************************************************************)
\* GPXData.coordinates is a sequence of <<lon, lat>> pairs ([lng, lat] in the code)
Lon(coord) == coord[1]
Lat(coord) == coord[2]

RECURSIVE BoundsOf(_, _)
\* parseGPX's running minima and maxima over the retained points
BoundsOf(coordinates, acc) ==
    IF coordinates = <<>> THEN acc
    ELSE LET c == Head(coordinates)
         IN  BoundsOf(Tail(coordinates),
                      [north |-> Max(acc.north, Lat(c)), south |-> Min(acc.south, Lat(c)),
                       east  |-> Max(acc.east,  Lon(c)), west  |-> Min(acc.west,  Lon(c))])

\* The GPXData parseGPX returns for a non-empty coordinate list
GPXDataOf(coordinates) ==
    LET c == Head(coordinates)
    IN  [coordinates |-> coordinates,
         bounds |-> BoundsOf(Tail(coordinates),
                             [north |-> Lat(c), south |-> Lat(c),
                              east |-> Lon(c), west |-> Lon(c)])]

\* tags.k: the value of tag k, undefined when the record does not carry it
Tag(tags, k) == IF k \in DOMAIN tags THEN tags[k] ELSE Undefined

(***************************************************************************)
(* Filter presets                                                           *)
(***************************************************************************)
\* preset.filters holds only the fields a preset defines
WATER_FILTER_PRESETS ==
    << [id |-> "potable-only",
        filters |-> [drinking_water |-> <<"yes">>, exclude_tags |-> <<"fee=yes">>]],
       [id |-> "free-potable",
        filters |-> [drinking_water |-> <<"yes">>, exclude_tags |-> <<"fee=yes">>]],
       [id |-> "all-potable",
        filters |-> [drinking_water |-> <<"yes">>]],
       [id |-> "emergency-sources",
        filters |-> [include_types |-> <<"fountain", "well", "spring", "tap">>,
                     access |-> <<"public", "yes">>]],
       [id |-> "all-sources",
        filters |-> <<>>] >>

PresetIds == {WATER_FILTER_PRESETS[i].id : i \in DOMAIN WATER_FILTER_PRESETS}

\* WATER_FILTER_PRESETS.find(p => p.id === filterPreset) || WATER_FILTER_PRESETS[0]
FindPreset(filterPreset) ==
    IF filterPreset \in PresetIds
    THEN WATER_FILTER_PRESETS[CHOOSE i \in DOMAIN WATER_FILTER_PRESETS :
                                /\ WATER_FILTER_PRESETS[i].id = filterPreset
                                /\ \A j \in 1..(i - 1) : WATER_FILTER_PRESETS[j].id # filterPreset]
    ELSE WATER_FILTER_PRESETS[1]

\* preset.filters.f is defined (an array, hence truthy)
HasFilter(preset, f) == f \in DOMAIN preset.filters

\* array.includes(v)
Includes(array, v) == \E i \in DOMAIN array : array[i] = v

RECURSIVE IndexOf(_, _, _)
\* the first position >= i of character ch in string s, or 0
IndexOf(s, ch, i) ==
    IF i > Len(s) THEN 0
    ELSE IF SubSeq(s, i, i) = ch THEN i
    ELSE IndexOf(s, ch, i + 1)

\* const [key, value] = excludeTag.split('='): the first two of the pieces
\* between '=' characters; value is undefined when there is no '='
SplitKeyValue(excludeTag) ==
    LET e1 == IndexOf(excludeTag, "=", 1)
        e2 == IF e1 = 0 THEN 0 ELSE IndexOf(excludeTag, "=", e1 + 1)
    IN  IF e1 = 0 THEN <<excludeTag, Undefined>>
        ELSE <<SubSeq(excludeTag, 1, e1 - 1),
               SubSeq(excludeTag, e1 + 1, IF e2 = 0 THEN Len(excludeTag) ELSE e2 - 1)>>

(***************************************************************************)
(* Point classifier and filter: processWaterPoint                           *)
(***************************************************************************)
\* a variant of ClassifyType that tests natural=spring first
ClassifySpringFirst(tags) ==
    IF Tag(tags, "natural") = "spring" THEN "spring"
    ELSE IF Tag(tags, "amenity") \in {"drinking_water", "fountain"} THEN "fountain"
    ELSE IF Tag(tags, "amenity") \in {"water_point", "water_tap"} THEN "tap"
    ELSE IF Tag(tags, "man_made") = "water_well" THEN "well"
    ELSE "other"

\* the type chain of processWaterPoint: the first matching tag decides
ClassifyType(tags) ==
    IF Tag(tags, "amenity") = "drinking_water" THEN "fountain"
    ELSE IF Tag(tags, "amenity") = "fountain" THEN "fountain"
    ELSE IF Tag(tags, "amenity") = "water_point" THEN "tap"
    ELSE IF Tag(tags, "amenity") = "water_tap" THEN "tap"
    ELSE IF Tag(tags, "man_made") = "water_well" THEN "well"
    ELSE IF Tag(tags, "natural") = "spring" THEN "spring"
    ELSE "other"

\* great-circle distance from the route's first coordinate to the point
calculateDistanceFromStart(lat, lon, gpxData) ==
    IF Len(gpxData.coordinates) = 0 THEN 0
    ELSE LET startPoint == gpxData.coordinates[1]
         IN  calculateDistance(Lat(startPoint), Lon(startPoint), lat, lon)

\* Infinity, the initial minDistance: above every distance of the model
Infinity == 2000000000

RECURSIVE MinDistanceLoop(_, _, _, _)
MinDistanceLoop(lat, lon, coordinates, minDistance) ==
    IF coordinates = <<>> THEN minDistance
    ELSE LET coord == Head(coordinates)
             distance == calculateDistance(Lat(coord), Lon(coord), lat, lon)
         IN  MinDistanceLoop(lat, lon, Tail(coordinates), Min(minDistance, distance))

\* minimum great-circle distance from the point to any vertex of the route
calculateMinDistanceFromRoute(lat, lon, gpxData) ==
    MinDistanceLoop(lat, lon, gpxData.coordinates, Infinity)

\* a variant of TooFar that also rejects a point exactly at the buffer distance
TooFarAtBuffer(distanceFromRoute, bufferDistance) == distanceFromRoute >= bufferDistance

\* if (distanceFromRoute > bufferDistance) return null
TooFar(distanceFromRoute, bufferDistance) == distanceFromRoute > bufferDistance

\* a variant of Excluded that matches on the key alone, whatever its value
ExcludedOnKey(tags, preset) ==
    /\ HasFilter(preset, "exclude_tags")
    /\ \E i \in DOMAIN preset.filters.exclude_tags :
          SplitKeyValue(preset.filters.exclude_tags[i])[1] \in DOMAIN tags

\* the loop over preset.filters.exclude_tags: some key=value matches tags[key]
Excluded(tags, preset) ==
    /\ HasFilter(preset, "exclude_tags")
    /\ \E i \in DOMAIN preset.filters.exclude_tags :
          LET kv == SplitKeyValue(preset.filters.exclude_tags[i])
          IN  Tag(tags, kv[1]) = kv[2]

\* preset.filters.access && tags.access && !preset.filters.access.includes(tags.access)
AccessRejected(tags, preset) ==
    /\ HasFilter(preset, "access")
    /\ TruthyString(Tag(tags, "access"))
    /\ ~Includes(preset.filters.access, Tag(tags, "access"))

\* preset.filters.drinking_water && drinkingWater && !...includes(drinkingWater)
DrinkingWaterRejected(tags, preset) ==
    /\ HasFilter(preset, "drinking_water")
    /\ TruthyString(Tag(tags, "drinking_water"))
    /\ ~Includes(preset.filters.drinking_water, Tag(tags, "drinking_water"))

\* const { lat, lon, tags = {}, id } = element
ElementTags(element) == IF "tags" \in DOMAIN element THEN element.tags ELSE <<>>

\* processWaterPoint(element, gpxData, bufferDistance, preset): <<>> is the
\* null return, <<waterPoint>> an accepted Water Point
processWaterPoint(element, gpxData, bufferDistance, preset) ==
    LET tags == ElementTags(element)
        type == ClassifyType(tags)
        distanceFromStart == calculateDistanceFromStart(element.lat, element.lon, gpxData)
        distanceFromRoute == calculateMinDistanceFromRoute(element.lat, element.lon, gpxData)
    IN  IF TooFar(distanceFromRoute, bufferDistance) THEN Null
        ELSE IF Excluded(tags, preset) THEN Null
        ELSE IF AccessRejected(tags, preset) THEN Null
        ELSE IF DrinkingWaterRejected(tags, preset) THEN Null
        ELSE << [id |-> ToString(element.id),
                 lat |-> element.lat,
                 lon |-> element.lon,
                 tags |-> tags,
                 distanceFromStart |-> distanceFromStart,
                 distanceFromRoute |-> distanceFromRoute,
                 type |-> type] >>

(***************************************************************************)
(* Spatial cache: key derivation                                            *)
(***************************************************************************)
CACHE_PREFIX == "geodrink_cache_"

\* the four digits of m, 0 <= m < 10000, with leading zeros
Pad4(m) ==
    (IF m < 10 THEN "000" ELSE IF m < 100 THEN "00" ELSE IF m < 1000 THEN "0" ELSE "")
        \o ToString(m)

\* a variant of toFixed4 that keeps five decimals
toFixed5(x) ==
    LET n == Abs(x)
    IN  (IF x < 0 THEN "-" ELSE "") \o ToString(n \div 100000) \o "."
            \o (IF n % 100000 < 10000 THEN "0" ELSE "") \o Pad4(n % 100000)

\* x.toFixed(4) for x in 1e-5 degree: the sign, then the nearest multiple of
\* 1e-4 written with four decimals.  For a fifth decimal of 5 the binary
\* double decides which multiple is nearest (2.00005 is written 2.0000 and
\* 48.00005 is written 48.0001); this definition takes the larger one, and the
\* bounding boxes of SpecKey have no fifth decimal of 5
toFixed4(x) ==
    LET n == (Abs(x) + 5) \div 10
    IN  (IF x < 0 THEN "-" ELSE "") \o ToString(n \div 10000) \o "." \o Pad4(n % 10000)

\* CacheManager.generateCacheKey(bounds, bufferDistance)
generateCacheKey(bounds, bufferDistance) ==
    LET boundsStr == toFixed4(bounds.north) \o "_" \o toFixed4(bounds.south) \o "_"
                       \o toFixed4(bounds.east) \o "_" \o toFixed4(bounds.west)
    IN  CACHE_PREFIX \o boundsStr \o "_" \o ToString(bufferDistance)

\* findWaterPoints' cacheKey: generateCacheKey(...) + `_${filterPreset}`
CacheKey(bounds, bufferDistance, filterPreset) ==
    generateCacheKey(bounds, bufferDistance) \o "_" \o filterPreset

\* key.startsWith(CACHE_PREFIX)
StartsWithPrefix(key) ==
    /\ Len(key) >= Len(CACHE_PREFIX)
    /\ SubSeq(key, 1, Len(CACHE_PREFIX)) = CACHE_PREFIX

(***************************************************************************)
(* JSON text.  A JSON text is a sequence of tokens: punctuation [p |-> "{"], *)
(* a member name [k |-> "data"], a number [n |-> 5], a string [s |-> "x"],   *)
(* a flat string-to-string object [o |-> tags], and [raw |-> ...] for text   *)
(* that is no JSON.                                                          *)
(***************************************************************************)
P(c) == [p |-> c]
K(name) == [k |-> name]
N(x) == [n |-> x]
S(str) == [s |-> str]
O(obj) == [o |-> obj]

\* a variant of StringifyPoint that writes lat and lon under each other's name
StringifyPointSwapped(wp) ==
    << P("{"), K("id"), S(wp.id), K("lat"), N(wp.lon), K("lon"), N(wp.lat),
       K("tags"), O(wp.tags), K("distanceFromStart"), N(wp.distanceFromStart),
       K("distanceFromRoute"), N(wp.distanceFromRoute), K("type"), S(wp.type), P("}") >>

\* JSON.stringify of one WaterPoint
StringifyPoint(wp) ==
    << P("{"), K("id"), S(wp.id), K("lat"), N(wp.lat), K("lon"), N(wp.lon),
       K("tags"), O(wp.tags), K("distanceFromStart"), N(wp.distanceFromStart),
       K("distanceFromRoute"), N(wp.distanceFromRoute), K("type"), S(wp.type), P("}") >>

RECURSIVE StringifyPoints(_)
StringifyPoints(list) ==
    IF list = <<>> THEN <<>>
    ELSE StringifyPoint(Head(list)) \o StringifyPoints(Tail(list))

\* JSON.stringify(bounds)
StringifyBounds(bounds) ==
    << P("{"), K("north"), N(bounds.north), K("south"), N(bounds.south),
       K("east"), N(bounds.east), K("west"), N(bounds.west), P("}") >>

\* JSON.stringify(entry) for a CacheEntry<WaterPoint[]>
StringifyEntry(entry) ==
    << P("{"), K("data"), P("[") >> \o StringifyPoints(entry.data) \o
    << P("]"), K("timestamp"), N(entry.timestamp), K("bounds"), S(entry.bounds),
       K("bufferDistance"), N(entry.bufferDistance), P("}") >>

IsNumber(tok) == DOMAIN tok = {"n"}
IsString(tok) == DOMAIN tok = {"s"}
IsObject(tok) == DOMAIN tok = {"o"}

\* the tokens at i.. are one WaterPoint object
PointAt(text, i) ==
    /\ i + 15 <= Len(text)
    /\ text[i] = P("{") /\ text[i + 15] = P("}")
    /\ text[i + 1] = K("id") /\ IsString(text[i + 2])
    /\ text[i + 3] = K("lat") /\ IsNumber(text[i + 4])
    /\ text[i + 5] = K("lon") /\ IsNumber(text[i + 6])
    /\ text[i + 7] = K("tags") /\ IsObject(text[i + 8])
    /\ text[i + 9] = K("distanceFromStart") /\ IsNumber(text[i + 10])
    /\ text[i + 11] = K("distanceFromRoute") /\ IsNumber(text[i + 12])
    /\ text[i + 13] = K("type") /\ IsString(text[i + 14])

ParsePoint(text, i) ==
    [id |-> text[i + 2].s, lat |-> text[i + 4].n, lon |-> text[i + 6].n,
     tags |-> text[i + 8].o, distanceFromStart |-> text[i + 10].n,
     distanceFromRoute |-> text[i + 12].n, type |-> text[i + 14].s]

RECURSIVE ParsePoints(_, _, _)
\* the array elements from token i on: its list and the position of its "]",
\* or next = 0 on a syntax error
ParsePoints(text, i, list) ==
    IF i > Len(text) THEN [next |-> 0, list |-> list]
    ELSE IF text[i] = P("]") THEN [next |-> i, list |-> list]
    ELSE IF PointAt(text, i) THEN ParsePoints(text, i + 16, Append(list, ParsePoint(text, i)))
    ELSE [next |-> 0, list |-> list]

\* JSON.parse(item) for the texts of this model: threw is the SyntaxError
ParseEntry(item) ==
    IF Len(item) < 3 \/ item[1] # P("{") \/ item[2] # K("data") \/ item[3] # P("[")
    THEN [threw |-> TRUE]
    ELSE LET arr == ParsePoints(item, 4, <<>>)
             j   == arr.next
         IN  IF /\ j # 0
                /\ Len(item) = j + 7
                /\ item[j + 1] = K("timestamp") /\ IsNumber(item[j + 2])
                /\ item[j + 3] = K("bounds") /\ IsString(item[j + 4])
                /\ item[j + 5] = K("bufferDistance") /\ IsNumber(item[j + 6])
                /\ item[j + 7] = P("}")
             THEN [threw |-> FALSE,
                   entry |-> [data |-> arr.list, timestamp |-> item[j + 2].n,
                              bounds |-> item[j + 4].s, bufferDistance |-> item[j + 6].n]]
             ELSE [threw |-> TRUE]

(***************************************************************************)
(* Spatial cache: CacheManager over localStorage                            *)
(* A storage fault names the storage call that throws in an operation:      *)
(* "none", "getItem", "setItem", "removeItem" or "keys" (Object.keys).      *)
(* Every operation returns [threw, value, storage]: whether an exception    *)
(* escapes it, its return value and the storage it leaves.                  *)
(***************************************************************************)
\* 60 * 60 * 1000: one hour in milliseconds
CACHE_DURATION == 3600000

\* storage with key bound to item (localStorage.setItem)
SetItem(storage, key, item) ==
    [k \in DOMAIN storage \cup {key} |-> IF k = key THEN item ELSE storage[k]]

\* storage without the keys of gone (localStorage.removeItem)
RemoveItems(storage, gone) == [k \in DOMAIN storage \ gone |-> storage[k]]

\* the try block of CacheManager.set
SetBody(storage, key, data, bounds, bufferDistance, time, fault) ==
    LET entry == [data |-> data, timestamp |-> time,
                  bounds |-> StringifyBounds(bounds), bufferDistance |-> bufferDistance]
    IN  IF fault = "setItem"
        THEN [threw |-> TRUE, value |-> Null, storage |-> storage]
        ELSE [threw |-> FALSE, value |-> Null,
              storage |-> SetItem(storage, key, StringifyEntry(entry))]

\* CacheManager.set(key, data, bounds, bufferDistance): the catch swallows
CacheSet(storage, key, data, bounds, bufferDistance, time, fault) ==
    LET r == SetBody(storage, key, data, bounds, bufferDistance, time, fault)
    IN  [r EXCEPT !.threw = FALSE]

\* a variant of GetBody with a sliding lifetime: a read of a live entry
\* rewrites it with the time of the read
GetBodySliding(storage, key, time, fault) ==
    IF fault = "getItem" THEN [threw |-> TRUE, value |-> Null, storage |-> storage]
    ELSE IF key \notin DOMAIN storage \/ storage[key] = <<>>
    THEN [threw |-> FALSE, value |-> Null, storage |-> storage]
    ELSE LET parsed == ParseEntry(storage[key])
         IN  IF parsed.threw THEN [threw |-> TRUE, value |-> Null, storage |-> storage]
             ELSE IF time - parsed.entry.timestamp > CACHE_DURATION
             THEN IF fault = "removeItem"
                  THEN [threw |-> TRUE, value |-> Null, storage |-> storage]
                  ELSE [threw |-> FALSE, value |-> Null,
                        storage |-> RemoveItems(storage, {key})]
             ELSE [threw |-> FALSE, value |-> <<parsed.entry.data>>,
                   storage |-> SetItem(storage, key,
                                       StringifyEntry([parsed.entry EXCEPT
                                                          !.timestamp = time]))]

\* the try block of CacheManager.get
GetBody(storage, key, time, fault) ==
    IF fault = "getItem" THEN [threw |-> TRUE, value |-> Null, storage |-> storage]
    ELSE IF key \notin DOMAIN storage \/ storage[key] = <<>>
    THEN [threw |-> FALSE, value |-> Null, storage |-> storage]
    ELSE LET parsed == ParseEntry(storage[key])
         IN  IF parsed.threw THEN [threw |-> TRUE, value |-> Null, storage |-> storage]
             ELSE IF time - parsed.entry.timestamp > CACHE_DURATION
             THEN IF fault = "removeItem"
                  THEN [threw |-> TRUE, value |-> Null, storage |-> storage]
                  ELSE [threw |-> FALSE, value |-> Null,
                        storage |-> RemoveItems(storage, {key})]
             ELSE [threw |-> FALSE, value |-> <<parsed.entry.data>>, storage |-> storage]

\* CacheManager.get(key) reaches its localStorage.removeItem(key)
GetRemoves(storage, key, time) ==
    /\ key \in DOMAIN storage
    /\ ~ParseEntry(storage[key]).threw
    /\ time - ParseEntry(storage[key]).entry.timestamp > CACHE_DURATION

\* a variant of CacheGet without the catch: the exception escapes
CacheGetThrowing(storage, key, time, fault) == GetBody(storage, key, time, fault)

\* CacheManager.get(key): the catch returns null
CacheGet(storage, key, time, fault) ==
    LET r == GetBody(storage, key, time, fault)
    IN  IF r.threw THEN [threw |-> FALSE, value |-> Null, storage |-> r.storage] ELSE r

\* the keys of the storage under the cache's prefix
CacheKeysOf(storage) == {k \in DOMAIN storage : StartsWithPrefix(k)}

RECURSIVE SumLen(_, _)
\* the sum of item.length over the keys of a set
SumLen(storage, ks) ==
    IF ks = {} THEN 0
    ELSE LET k == CHOOSE x \in ks : TRUE
         IN  Len(storage[k]) + SumLen(storage, ks \ {k})

\* CacheManager.getCacheInfo() when no storage call throws
getCacheInfo(storage) ==
    [totalEntries |-> Cardinality(CacheKeysOf(storage)),
     totalSize |-> SumLen(storage, CacheKeysOf(storage))]

(***************************************************************************)
(* Query orchestrator: findWaterPoints                                      *)
(***************************************************************************)
\* a variant of Truthy that takes an empty array for falsy
TruthyNonEmpty(nullable) == nullable # Null /\ nullable[1] # <<>>

\* if (cachedData): null is falsy, an array (an empty one too) is truthy
Truthy(nullable) == nullable # Null

\* element.f as a condition: the number is present and not 0
TruthyNumber(element, f) == f \in DOMAIN element /\ element[f] # 0

RECURSIVE InsertSorted(_, _)
\* wp placed after the points that are not farther from the start
InsertSorted(sorted, wp) ==
    IF sorted = <<>> THEN <<wp>>
    ELSE IF Head(sorted).distanceFromStart <= wp.distanceFromStart
    THEN <<Head(sorted)>> \o InsertSorted(Tail(sorted), wp)
    ELSE <<wp>> \o sorted

RECURSIVE SortLoop(_, _)
SortLoop(list, sorted) ==
    IF list = <<>> THEN sorted
    ELSE SortLoop(Tail(list), InsertSorted(sorted, Head(list)))

\* a variant of SortByDistanceFromStart that leaves the response's order
KeepResponseOrder(waterPoints) == waterPoints

\* waterPoints.sort((a, b) => a.distanceFromStart - b.distanceFromStart): stable
SortByDistanceFromStart(waterPoints) == SortLoop(waterPoints, <<>>)

RECURSIVE ProcessElements(_, _, _, _, _)
\* a variant of ProcessElements that pushes an accepted node twice
ProcessElementsPushTwice(elements, gpxData, bufferDistance, preset, waterPoints) ==
    IF elements = <<>> THEN waterPoints
    ELSE LET element == Head(elements)
             waterPoint ==
                 IF /\ element.type = "node"
                    /\ TruthyNumber(element, "lat")
                    /\ TruthyNumber(element, "lon")
                 THEN processWaterPoint(element, gpxData, bufferDistance, preset)
                 ELSE Null
         IN  ProcessElements(Tail(elements), gpxData, bufferDistance, preset,
                             waterPoints \o waterPoint \o waterPoint)

\* the loop over data.elements, pushing the accepted nodes
ProcessElements(elements, gpxData, bufferDistance, preset, waterPoints) ==
    IF elements = <<>> THEN waterPoints
    ELSE LET element == Head(elements)
             waterPoint ==
                 IF /\ element.type = "node"
                    /\ TruthyNumber(element, "lat")
                    /\ TruthyNumber(element, "lon")
                 THEN processWaterPoint(element, gpxData, bufferDistance, preset)
                 ELSE Null
         IN  ProcessElements(Tail(elements), gpxData, bufferDistance, preset,
                             waterPoints \o waterPoint)

\* findWaterPoints up to its await: [outcome, value, storage, cachedData].
\* "cached" returns value; "fetch" goes on to the remote request; "failed" is
\* the catch block returning []; cachedData is what CacheManager.get returned
FindSync(gpxData, bufferDistance, filterPreset, storage, time, fault) ==
    LET cacheKey == CacheKey(gpxData.bounds, bufferDistance, filterPreset)
        got == CacheGet(storage, cacheKey, time, fault)
    IN  IF got.threw
        THEN [outcome |-> "failed", value |-> <<>>, storage |-> got.storage,
              cachedData |-> Null]
        ELSE IF Truthy(got.value)
        THEN [outcome |-> "cached", value |-> got.value[1], storage |-> got.storage,
              cachedData |-> got.value]
        ELSE [outcome |-> "fetch", value |-> <<>>, storage |-> got.storage,
              cachedData |-> got.value]

\* a variant of FindSettle whose catch block caches the empty list it returns
FindSettleCachingFailure(call, response, storage, time, fault) ==
    [outcome |-> "failed", value |-> <<>>,
     storage |-> CacheSet(storage, call.cacheKey, <<>>, call.gpxData.bounds,
                          call.bufferDistance, time, fault).storage]

\* a variant of FindSettle that reaches no final state
FindSettleUnfinished(call, response, storage, time, fault) ==
    [outcome |-> "fetching", value |-> <<>>, storage |-> storage]

\* findWaterPoints from the settling of its fetch on: [outcome, value, storage]
FindSettle(call, response, storage, time, fault) ==
    IF response.kind \in {"networkError", "httpError", "invalidJson", "jsonNull"}
    THEN [outcome |-> "failed", value |-> <<>>, storage |-> storage]
    ELSE LET data == response.data
             preset == FindPreset(call.filterPreset)
             waterPoints ==
                 IF "elements" \in DOMAIN data
                 THEN ProcessElements(data.elements, call.gpxData, call.bufferDistance,
                                      preset, <<>>)
                 ELSE <<>>
             sortedWaterPoints == SortByDistanceFromStart(waterPoints)
             put == CacheSet(storage, call.cacheKey, sortedWaterPoints,
                             call.gpxData.bounds, call.bufferDistance, time, fault)
         IN  IF put.threw
             THEN [outcome |-> "failed", value |-> <<>>, storage |-> put.storage]
             ELSE [outcome |-> "fulfilled", value |-> sortedWaterPoints,
                   storage |-> put.storage]

\* a variant of ClearBody that empties the storage (localStorage.clear())
ClearBodyEverything(storage, fault, removed) ==
    [threw |-> fault # "none", value |-> Null,
     storage |-> IF fault = "none" THEN <<>> ELSE storage]

\* the try block of CacheManager.clear: with fault "removeItem" the loop
\* stops at some key, having removed the keys of removed
ClearBody(storage, fault, removed) ==
    IF fault = "keys" THEN [threw |-> TRUE, value |-> Null, storage |-> storage]
    ELSE IF fault = "removeItem"
    THEN [threw |-> TRUE, value |-> Null, storage |-> RemoveItems(storage, removed)]
    ELSE [threw |-> FALSE, value |-> Null,
          storage |-> RemoveItems(storage, CacheKeysOf(storage))]

\* CacheManager.clear(): the catch swallows
CacheClear(storage, fault, removed) ==
    [ClearBody(storage, fault, removed) EXCEPT !.threw = FALSE]

\* CacheManager.getCacheInfo(): with fault "getItem" the loop stops at some
\* key, counted but not measured, after the keys of counted; the catch
\* returns the totals so far
CacheInfo(storage, fault, counted) ==
    IF fault = "keys" THEN [totalEntries |-> 0, totalSize |-> 0]
    ELSE IF fault = "getItem"
    THEN [totalEntries |-> Cardinality(counted) + 1, totalSize |-> SumLen(storage, counted)]
    ELSE getCacheInfo(storage)

(***************************************************************************)
(* Inputs of the model                                                      *)
(***************************************************************************)
\* The two-vertex route [(2.0,48.0),(2.1,48.0)] (lon,lat): one 7.4 km segment
ExampleRoute == GPXDataOf(<< <<200000, 4800000>>, <<210000, 4800000>> >>)

\* The same segment with a vertex at its midpoint: the same bounding box
DenseRoute == GPXDataOf(<< <<200000, 4800000>>, <<205000, 4800000>>, <<210000, 4800000>> >>)

Routes == {ExampleRoute, DenseRoute}

\* Buffer distances of the slider (5..200 m in steps of 5; 15 is the default)
Buffers == {15, 100}

\* Record locations <<lat, lon>>: 5.5 m north of the segment midpoint; 15 m,
\* 100 m, 101 m and 500 m north of the first vertex
MidPoint == <<4800005, 205000>>

Locations == {MidPoint, <<4800014, 200000>>, <<4800090, 200000>>,
              <<4800091, 200000>>, <<4800450, 200000>>}

\* Tag values of raw records; Undefined stands for a tag the record lacks,
\* "" for a tag the record carries with an empty value
TagChoices ==
    [amenity : {Undefined, "drinking_water", "fountain", "water_point", "water_tap"},
     man_made : {Undefined, "water_well"},
     natural : {Undefined, "spring"},
     fee : {Undefined, "yes", "no"},
     access : {Undefined, "", "public", "private"},
     drinking_water : {Undefined, "", "yes", "no"}]

\* The tag mapping of a choice: the tags that are present
TagsOf(c) == [k \in {k \in DOMAIN c : c[k] # Undefined} |-> c[k]]

TagSets == {TagsOf(c) : c \in TagChoices}

(***************************************************************************)
(* Specification SpecFilter: processWaterPoint applied to one record        *)
(***************************************************************************)
cacheVars == <<localStorage, now, pending, lastOp, stored, requests>>

\* the cache and the orchestrator at rest
CacheIdle ==
    /\ localStorage = <<>>
    /\ now = 0
    /\ pending = {}
    /\ lastOp = [op |-> "init"]
    /\ stored = <<>>
    /\ requests = 0

PwpIdle == pwp = [pc |-> "none"]
KeysIdle == keys = [pc |-> "none"]
FwIdle == fw = [pc |-> "none"]
AppIdle == app = [pc |-> "none"]
GpxIdle == gpx = [pc |-> "none"]
GeoIdle == geo = [pc |-> "none"]
PosIdle == pos = [pc |-> "none"]

InitFilter ==
    /\ \E loc \in Locations, tags \in TagSets, gpxData \in Routes,
          bufferDistance \in Buffers, id \in PresetIds :
          pwp = [pc |-> "call",
                 element |-> [type |-> "node", id |-> 1, lat |-> loc[1], lon |-> loc[2],
                              tags |-> tags],
                 gpxData |-> gpxData,
                 bufferDistance |-> bufferDistance,
                 preset |-> FindPreset(id),
                 result |-> Null]
    /\ KeysIdle
    /\ FwIdle
    /\ AppIdle
    /\ GpxIdle
    /\ GeoIdle
    /\ PosIdle
    /\ CacheIdle

\* the call returns
ProcessWaterPoint ==
    /\ pwp.pc = "call"
    /\ pwp' = [pwp EXCEPT !.pc = "done",
                          !.result = processWaterPoint(pwp.element, pwp.gpxData,
                                                       pwp.bufferDistance, pwp.preset)]
    /\ UNCHANGED <<keys, fw, app, gpx, geo, pos, cacheVars>>

NextFilter == ProcessWaterPoint

SpecFilter == InitFilter /\ [][NextFilter]_vars

(***************************************************************************)
(* Properties of processWaterPoint (SpecFilter)                             *)
(***************************************************************************)
PwpTags == ElementTags(pwp.element)

\* every vertex of the route is farther than d from the record
AllVerticesBeyond(d) ==
    \A i \in DOMAIN pwp.gpxData.coordinates :
        calculateDistance(Lat(pwp.gpxData.coordinates[i]), Lon(pwp.gpxData.coordinates[i]),
                          pwp.element.lat, pwp.element.lon) > d

\* the nearest vertex of the route is exactly d away from the record
NearestVertexAt(d) ==
    /\ AllVerticesBeyond(d - 1)
    /\ ~AllVerticesBeyond(d)

\* the record carries none of the tags the preset rules read
NoRuleTags == DOMAIN PwpTags \cap {"fee", "access", "drinking_water"} = {}

\* the scenario of the specification: route [(2.0,48.0),(2.1,48.0)], buffer
\* 100 m, a record 5.5 m off the segment midpoint tagged
\* amenity=drinking_water, drinking_water=yes, preset potable-only
ExampleScenario ==
    /\ pwp.gpxData = ExampleRoute
    /\ pwp.bufferDistance = 100
    /\ <<pwp.element.lat, pwp.element.lon>> = MidPoint
    /\ PwpTags = [amenity |-> "drinking_water", drinking_water |-> "yes"]
    /\ pwp.preset.id = "potable-only"

\* C8 (as claimed): in the example scenario the record is accepted, with type
\* fountain and a distance-from-route below the buffer.  processWaterPoint
\* measures the distance to the two vertices, 3.7 km away, and rejects it.
C8_SegmentProximityAccepted ==
    (pwp.pc = "done" /\ ExampleScenario) =>
        /\ pwp.result # Null
        /\ pwp.result[1].type = "fountain"
        /\ pwp.result[1].distanceFromRoute < pwp.bufferDistance

ExcludePairs(preset) ==
    IF preset.id \in {"potable-only", "free-potable"} THEN {<<"fee", "yes">>} ELSE {}

\* some exclude rule of the preset matches a tag of the record exactly
SomeExcludePairMatches ==
    \E kv \in ExcludePairs(pwp.preset) : Tag(PwpTags, kv[1]) = kv[2]

\* C10: a record that passes coarse admission is rejected whenever an exclude
\* rule key=value of the preset matches its tags exactly (fee=yes under
\* potable-only in particular); a record no exclude rule matches is not
\* rejected by this rule (it is accepted when it carries no access and no
\* drinking_water tag for the later rules to read).
C10_ExclusionRule ==
    (pwp.pc = "done" /\ ~AllVerticesBeyond(pwp.bufferDistance)) =>
        /\ SomeExcludePairMatches => pwp.result = Null
        /\ (pwp.preset.id = "potable-only" /\ Tag(PwpTags, "fee") = "yes")
              => pwp.result = Null
        /\ (~SomeExcludePairMatches
              /\ DOMAIN PwpTags \cap {"access", "drinking_water"} = {})
              => pwp.result # Null

\* C10 witness: within the buffer, amenity=drinking_water, drinking_water=yes,
\* fee=yes under potable-only: rejected
C10_Witness ==
    /\ pwp.pc = "done"
    /\ ~AllVerticesBeyond(pwp.bufferDistance)
    /\ pwp.preset.id = "potable-only"
    /\ PwpTags = [amenity |-> "drinking_water", drinking_water |-> "yes", fee |-> "yes"]
    /\ pwp.result = Null

\* the allow-list rule of a tag as claimed: the preset defines an allow-list
\* for the tag, the record carries the tag, and its value is not in the list
AllowListRejects(tag) ==
    /\ tag \in DOMAIN pwp.preset.filters
    /\ tag \in DOMAIN PwpTags
    /\ \A i \in DOMAIN pwp.preset.filters[tag] : pwp.preset.filters[tag][i] # PwpTags[tag]

C12_ClassificationPrecedence ==
    (pwp.pc = "done" /\ pwp.result # Null) =>
        LET amenity == Tag(PwpTags, "amenity")
            isWell == Tag(PwpTags, "man_made") = "water_well"
            isSpring == Tag(PwpTags, "natural") = "spring"
            noAmenity == amenity \notin {"drinking_water", "fountain", "water_point",
                                         "water_tap"}
            type == pwp.result[1].type
        IN  /\ amenity \in {"drinking_water", "fountain"} => type = "fountain"
            /\ amenity \in {"water_point", "water_tap"} => type = "tap"
            /\ (noAmenity /\ isWell) => type = "well"
            /\ (noAmenity /\ ~isWell /\ isSpring) => type = "spring"
            /\ (noAmenity /\ ~isWell /\ ~isSpring) => type = "other"

\* C12 witness: an accepted record tagged amenity=drinking_water and
\* natural=spring, classified fountain
C12_Witness ==
    /\ pwp.pc = "done"
    /\ pwp.result # Null
    /\ Tag(PwpTags, "amenity") = "drinking_water"
    /\ Tag(PwpTags, "natural") = "spring"
    /\ pwp.result[1].type = "fountain"

(***************************************************************************)
(* Specification SpecKey: the cache keys of two bounding boxes              *)
(***************************************************************************)
\* fifth decimal digits tried on each field of a bounding box
FifthDigits == {0, 4, 6}

\* the boxes that differ from the example route's box in the fifth decimal only
NearbyBounds ==
    {[north |-> ExampleRoute.bounds.north + dn, south |-> ExampleRoute.bounds.south + ds,
      east  |-> ExampleRoute.bounds.east + de,  west  |-> ExampleRoute.bounds.west + dw] :
         dn \in FifthDigits, ds \in FifthDigits, de \in FifthDigits, dw \in FifthDigits}

InitKey ==
    /\ \E a \in NearbyBounds, b \in NearbyBounds, bufferDistance \in Buffers,
          filterPreset \in {"potable-only", "all-sources"} :
          keys = [pc |-> "call", boundsA |-> a, boundsB |-> b,
                  bufferDistance |-> bufferDistance, filterPreset |-> filterPreset,
                  keyA |-> "", keyB |-> ""]
    /\ PwpIdle
    /\ FwIdle
    /\ AppIdle
    /\ GpxIdle
    /\ GeoIdle
    /\ PosIdle
    /\ CacheIdle

\* both keys are derived, as findWaterPoints derives its cacheKey
DeriveKeys ==
    /\ keys.pc = "call"
    /\ keys' = [keys EXCEPT !.pc = "done",
                   !.keyA = CacheKey(keys.boundsA, keys.bufferDistance, keys.filterPreset),
                   !.keyB = CacheKey(keys.boundsB, keys.bufferDistance, keys.filterPreset)]
    /\ UNCHANGED <<pwp, fw, app, gpx, geo, pos, cacheVars>>

NextKey == DeriveKeys

SpecKey == InitKey /\ [][NextKey]_vars

BoundsFields == {"north", "south", "east", "west"}

\* the two boxes agree in every field up to the fourth decimal: they differ in
\* the fifth decimal only
DifferInFifthDecimalOnly ==
    \A f \in BoundsFields : keys.boundsA[f] \div 10 = keys.boundsB[f] \div 10

\* the two boxes round to the same four decimals, field by field
RoundAlike ==
    \A f \in BoundsFields :
        (keys.boundsA[f] + 5) \div 10 = (keys.boundsB[f] + 5) \div 10

\* C3 (as claimed): two boxes that differ in the fifth decimal only, with the
\* same buffer and filter, have equal cache keys.  48.00004 and 48.00006 differ
\* in the fifth decimal only and are written 48.0000 and 48.0001.
C3_FifthDecimalCollides ==
    (keys.pc = "done" /\ DifferInFifthDecimalOnly) => keys.keyA = keys.keyB

\* C3 (amended): two boxes whose fields round to the same four decimals, with
\* the same buffer and filter, have equal cache keys.
C3_RoundAlikeCollides ==
    (keys.pc = "done" /\ RoundAlike) => keys.keyA = keys.keyB

\* C3 witness: two different boxes that round alike and share their key
C3_Witness ==
    /\ keys.pc = "done"
    /\ keys.boundsA # keys.boundsB
    /\ RoundAlike
    /\ keys.keyA = keys.keyB

(***************************************************************************)
(* Specification Spec: the cache and the orchestrator                       *)
(***************************************************************************)
\* raw records of the remote source
NodeNearStart ==
    [type |-> "node", id |-> 1, lat |-> 4800014, lon |-> 200000,
     tags |-> [amenity |-> "drinking_water", drinking_water |-> "yes"]]
NodeMid ==
    [type |-> "node", id |-> 2, lat |-> MidPoint[1], lon |-> MidPoint[2],
     tags |-> [amenity |-> "fountain", drinking_water |-> "yes"]]
NodeAtBuffer ==
    [type |-> "node", id |-> 3, lat |-> 4800090, lon |-> 200000,
     tags |-> [natural |-> "spring"]]
NodeFee ==
    [type |-> "node", id |-> 4, lat |-> 4800010, lon |-> 200000,
     tags |-> [amenity |-> "drinking_water", fee |-> "yes"]]
WayElement ==
    [type |-> "way", id |-> 5, tags |-> [amenity |-> "fountain"]]

\* how the remote request can settle: fetch rejects; a non-success status;
\* response.json() rejects; the body is the JSON null; a JSON object (without
\* elements, with none, with the five records)
RemoteFailures ==
    {[kind |-> "networkError"], [kind |-> "httpError"], [kind |-> "invalidJson"],
     [kind |-> "jsonNull"]}

RemoteBodies ==
    {[kind |-> "json", data |-> [remark |-> "runtime error"]],
     [kind |-> "json", data |-> [elements |-> <<>>]],
     [kind |-> "json",
      data |-> [elements |-> <<WayElement, NodeMid, NodeFee, NodeNearStart, NodeAtBuffer>>]]}

Responses == RemoteFailures \cup RemoteBodies

\* the buffer distance and filter preset findWaterPoints is called with: the
\* application's defaults, and a wide buffer with every source
Queries ==
    {[bufferDistance |-> 15, filterPreset |-> "potable-only"],
     [bufferDistance |-> 100, filterPreset |-> "all-sources"]}

\* text that is no JSON
NotJson == <<[raw |-> "{\"data\":[{\"id"]>>

\* the entry an earlier visit left at time 0: the wide query on the example
\* route, answered with the five records
EarlierKey == CacheKey(ExampleRoute.bounds, 100, "all-sources")
EarlierData ==
    SortByDistanceFromStart(
        ProcessElements(<<WayElement, NodeMid, NodeFee, NodeNearStart, NodeAtBuffer>>,
                        ExampleRoute, 100, FindPreset("all-sources"), <<>>))

\* the cache key whose entry is damaged when the page loads
DamagedKey == CacheKey(ExampleRoute.bounds, 15, "potable-only")

\* what localStorage holds when the page loads: another application's
\* entry, a damaged entry under a cache key, and the entry of an earlier visit
InitialStorage ==
    CacheSet([k \in {"theme", DamagedKey} |->
                 IF k = "theme" THEN <<[raw |-> "dark"]>> ELSE NotJson],
             EarlierKey, EarlierData, ExampleRoute.bounds, 100, 0, "none").storage

\* bounds of the model: the remote requests issued, and how many
\* milliseconds past 0 and past one CACHE_DURATION the clock is read at
MaxRequests == 1
MaxPastDuration == 1

Init ==
    /\ localStorage = InitialStorage
    /\ now = 0
    /\ pending = {}
    /\ lastOp = [op |-> "init"]
    /\ stored = [k \in {EarlierKey} |-> [data |-> EarlierData, at |-> 0]]
    /\ requests = 0
    /\ PwpIdle
    /\ KeysIdle
    /\ FwIdle
    /\ AppIdle
    /\ GpxIdle
    /\ GeoIdle
    /\ PosIdle

\* findWaterPoints(gpxData, bufferDistance, filterPreset) runs up to its
\* await, or to its return on a cache hit
FindWaterPoints(gpxData, bufferDistance, filterPreset, fault) ==
    \E cacheKey \in {CacheKey(gpxData.bounds, bufferDistance, filterPreset)},
       r \in {FindSync(gpxData, bufferDistance, filterPreset, localStorage, now, fault)} :
        /\ r.outcome = "fetch" => requests < MaxRequests
        /\ fault = "removeItem" => GetRemoves(localStorage, cacheKey, now)
        /\ localStorage' = r.storage
        /\ pending' = IF r.outcome = "fetch"
                      THEN pending \cup {[id |-> requests + 1, gpxData |-> gpxData,
                                           bufferDistance |-> bufferDistance,
                                           filterPreset |-> filterPreset,
                                           cacheKey |-> cacheKey]}
                      ELSE pending
        /\ requests' = IF r.outcome = "fetch" THEN requests + 1 ELSE requests
        /\ lastOp' = [op |-> "findWaterPoints", cacheKey |-> cacheKey, fault |-> fault,
                      outcome |-> r.outcome, value |-> r.value,
                      gpxData |-> gpxData, bufferDistance |-> bufferDistance]
        /\ UNCHANGED <<now, stored, pwp, keys, fw, app, gpx, geo, pos>>

\* the fetch of a call settles and findWaterPoints runs to its return
FetchSettles(call, response, fault) ==
    \E r \in {FindSettle(call, response, localStorage, now, fault)} :
        /\ call \in pending
        /\ fault = "setItem" => response \in RemoteBodies
        /\ localStorage' = r.storage
        /\ pending' = pending \ {call}
        /\ stored' = IF r.storage # localStorage \/ (r.outcome = "fulfilled" /\ fault = "none")
                     THEN SetItem(stored, call.cacheKey, [data |-> r.value, at |-> now])
                     ELSE stored
        /\ lastOp' = [op |-> "fetchSettled", cacheKey |-> call.cacheKey, fault |-> fault,
                      outcome |-> r.outcome, value |-> r.value,
                      gpxData |-> call.gpxData, bufferDistance |-> call.bufferDistance]
        /\ UNCHANGED <<now, requests, pwp, keys, fw, app, gpx, geo, pos>>

\* SettingsPanel.clearCache: CacheManager.clear()
ClearCache(fault, removed) ==
    \E r \in {CacheClear(localStorage, fault, removed)} :
        /\ fault = "removeItem" => removed # CacheKeysOf(localStorage)
        /\ fault # "removeItem" => removed = {}
        /\ localStorage' = r.storage
        /\ stored' = RemoveItems(stored, DOMAIN localStorage \ DOMAIN r.storage)
        /\ lastOp' = [op |-> "clear", fault |-> fault,
                      removed |-> DOMAIN localStorage \ DOMAIN r.storage]
        /\ UNCHANGED <<now, pending, requests, pwp, keys, fw, app, gpx, geo, pos>>

\* SettingsPanel opens: CacheManager.getCacheInfo()
GetCacheInfo(fault, counted) ==
    /\ fault = "getItem" => counted # CacheKeysOf(localStorage)
    /\ fault # "getItem" => counted = {}
    /\ lastOp' = [op |-> "getCacheInfo", info |-> CacheInfo(localStorage, fault, counted)]
    /\ UNCHANGED <<localStorage, now, pending, stored, requests, pwp, keys, fw, app, gpx, geo, pos>>

\* time passes
Tick(ms) ==
    /\ now + ms <= CACHE_DURATION + MaxPastDuration
    /\ (now + ms) % CACHE_DURATION <= MaxPastDuration
    /\ now' = now + ms
    /\ lastOp' = [op |-> "tick"]
    /\ UNCHANGED <<localStorage, pending, stored, requests, pwp, keys, fw, app, gpx, geo, pos>>

Next ==
    \/ \E gpxData \in Routes, q \in Queries, fault \in {"none", "getItem", "removeItem"} :
          FindWaterPoints(gpxData, q.bufferDistance, q.filterPreset, fault)
    \/ \E call \in pending, response \in Responses, fault \in {"none", "setItem"} :
          FetchSettles(call, response, fault)
    \/ \E fault \in {"none", "keys", "removeItem"},
          removed \in SUBSET CacheKeysOf(localStorage) :
          ClearCache(fault, removed)
    \/ \E fault \in {"none", "keys", "getItem"},
          counted \in SUBSET CacheKeysOf(localStorage) :
          GetCacheInfo(fault, counted)
    \/ \E ms \in {1, CACHE_DURATION} : Tick(ms)

Spec == Init /\ [][Next]_vars

(***************************************************************************)
(* Properties of the cache and the orchestrator (specification Spec)        *)
(* stored remembers, per key, the list the last CacheManager.set wrote and  *)
(* when; CacheManager.clear forgets the keys it removes.                    *)
(***************************************************************************)
\* the cache keys findWaterPoints is called with
QueryKeys ==
    {CacheKey(g.bounds, q.bufferDistance, q.filterPreset) : g \in Routes, q \in Queries}

\* the entry set under key k is within its lifetime at the current time
Live(k) == k \in DOMAIN stored /\ now - stored[k].at <= CACHE_DURATION

C2_FixedLifetime ==
    \A k \in DOMAIN stored \cap DOMAIN localStorage :
        \A got \in {CacheGet(localStorage, k, now, "none")} :
            /\ ParseEntry(localStorage[k]).entry.timestamp = stored[k].at
            /\ now - stored[k].at <= CACHE_DURATION =>
                   /\ got.value # Null
                   /\ got.storage = localStorage
            /\ now - stored[k].at > CACHE_DURATION =>
                   /\ got.value = Null
                   /\ k \notin DOMAIN got.storage
                   /\ getCacheInfo(got.storage).totalEntries =
                          getCacheInfo(localStorage).totalEntries - 1

\* a call found the entry of its key older than CACHE_DURATION: the key is
\* gone from the storage and the call went on to fetch
C2_Witness ==
    /\ lastOp.op = "findWaterPoints"
    /\ lastOp.fault = "none"
    /\ lastOp.outcome = "fetch"
    /\ lastOp.cacheKey \in DOMAIN stored
    /\ now - stored[lastOp.cacheKey].at > CACHE_DURATION
    /\ lastOp.cacheKey \notin DOMAIN localStorage

\* C4: clear() removes every key of the cache and no other key: afterwards
\* every get returns null, getCacheInfo counts zero entries, and the keys of
\* other applications keep their items.
C4_ClearRemovesCacheOnly ==
    \A r \in {CacheClear(localStorage, "none", {})} :
        /\ DOMAIN r.storage = DOMAIN localStorage \ QueryKeys
        /\ \A k \in DOMAIN r.storage : r.storage[k] = localStorage[k]
        /\ \A k \in QueryKeys : CacheGet(r.storage, k, now, "none").value = Null
        /\ getCacheInfo(r.storage).totalEntries = 0

\* a clear has just removed two cache entries, one of them set by a fetch of
\* this session, and the other application's key is still there
C4_Witness ==
    /\ lastOp.op = "clear"
    /\ lastOp.fault = "none"
    /\ requests > 0
    /\ Cardinality(lastOp.removed) = 2
    /\ DOMAIN localStorage = {"theme"}
    /\ stored = <<>>

\* C5: no storage failure escapes the cache. A get whose read throws, whose
\* item is no JSON or whose removal throws returns null; set, clear and
\* getCacheInfo return normally whichever storage call throws; and
\* findWaterPoints then goes on to fetch and returns the fetched list as on a
\* miss.
C5_StorageFailuresSwallowed ==
    /\ \A k \in QueryKeys, fault \in {"getItem", "removeItem"} :
          \A got \in {CacheGet(localStorage, k, now, fault)} :
              /\ ~got.threw
              /\ (fault = "getItem" \/ GetRemoves(localStorage, k, now)) =>
                     got.value = Null
    /\ \A k \in QueryKeys :
          (k \in DOMAIN localStorage /\ ParseEntry(localStorage[k]).threw) =>
              \A got \in {CacheGet(localStorage, k, now, "none")} :
                  ~got.threw /\ got.value = Null
    /\ \A fault \in {"keys", "removeItem"}, removed \in SUBSET CacheKeysOf(localStorage) :
          ~CacheClear(localStorage, fault, removed).threw
    /\ \A fault \in {"keys", "getItem"},
          counted \in SUBSET CacheKeysOf(localStorage) \ {CacheKeysOf(localStorage)} :
          CacheInfo(localStorage, fault, counted).totalEntries
              <= getCacheInfo(localStorage).totalEntries
    /\ \A k \in QueryKeys :
          \A put \in {CacheSet(localStorage, k, <<>>, ExampleRoute.bounds, 15, now,
                               "setItem")} :
              ~put.threw /\ put.storage = localStorage
    /\ \A g \in Routes, q \in Queries :
          /\ FindSync(g, q.bufferDistance, q.filterPreset, localStorage, now,
                      "getItem").outcome = "fetch"
          /\ GetRemoves(localStorage,
                        CacheKey(g.bounds, q.bufferDistance, q.filterPreset), now) =>
                 FindSync(g, q.bufferDistance, q.filterPreset, localStorage, now,
                          "removeItem").outcome = "fetch"
          /\ (DamagedKey \in DOMAIN localStorage /\ localStorage[DamagedKey] = NotJson
              /\ CacheKey(g.bounds, q.bufferDistance, q.filterPreset) = DamagedKey) =>
                 FindSync(g, q.bufferDistance, q.filterPreset, localStorage, now,
                          "none").outcome = "fetch"
    /\ \A call \in pending, response \in RemoteBodies :
          \A failing \in {FindSettle(call, response, localStorage, now, "setItem")},
             working \in {FindSettle(call, response, localStorage, now, "none")} :
              /\ failing.outcome = "fulfilled"
              /\ failing.value = working.value
              /\ failing.storage = localStorage

\* a call whose read of the storage threw went on to fetch although a live
\* entry of its key is in the storage
C5_Witness ==
    /\ lastOp.op = "findWaterPoints"
    /\ lastOp.fault = "getItem"
    /\ lastOp.outcome = "fetch"
    /\ Live(lastOp.cacheKey)
    /\ lastOp.cacheKey \in DOMAIN localStorage

C7_CacheHit ==
    \A g \in Routes, q \in Queries :
        Live(CacheKey(g.bounds, q.bufferDistance, q.filterPreset)) =>
            \A r \in {FindSync(g, q.bufferDistance, q.filterPreset, localStorage, now,
                               "none")} :
                /\ r.outcome = "cached"
                /\ r.value = stored[CacheKey(g.bounds, q.bufferDistance, q.filterPreset)].data
                /\ r.storage = localStorage

\* a call has just been answered with the empty list an earlier fetch
\* stored, and no request is in flight
C7_Witness ==
    /\ lastOp.op = "findWaterPoints"
    /\ lastOp.outcome = "cached"
    /\ lastOp.value = <<>>
    /\ Live(lastOp.cacheKey)
    /\ stored[lastOp.cacheKey].data = <<>>
    /\ requests > 0
    /\ pending = {}

\* the operation that produced this state is a findWaterPoints call returning
Returned == lastOp.op = "fetchSettled" \/ (lastOp.op = "findWaterPoints" /\ lastOp.outcome # "fetch")

\* C13: every list findWaterPoints returns, fetched or cached, is in ascending
\* order of distanceFromStart.
C13_SortedByDistanceFromStart ==
    Returned =>
        \A i \in 1..(Len(lastOp.value) - 1) :
            lastOp.value[i].distanceFromStart <= lastOp.value[i + 1].distanceFromStart

\* a fetch returned two points or more, and the record that came first in the
\* response is last in the list
C13_Witness ==
    /\ lastOp.op = "fetchSettled"
    /\ lastOp.outcome = "fulfilled"
    /\ Len(lastOp.value) >= 2
    /\ lastOp.value[Len(lastOp.value)].id = "2"
    /\ lastOp.value[1].distanceFromStart < lastOp.value[Len(lastOp.value)].distanceFromStart

(***************************************************************************)
(* Specification SpecFetch: one findWaterPoints call on an empty cache      *)
(***************************************************************************)
\* a route along latitude 51.4779 that starts on the prime meridian
MeridianRoute == GPXDataOf(<< <<0, 5147790>>, <<100, 5147790>> >>)

\* records on the first vertex of MeridianRoute (longitude 0) and 7 m east of it
NodeOnMeridian ==
    [type |-> "node", id |-> 6, lat |-> 5147790, lon |-> 0,
     tags |-> [amenity |-> "drinking_water", drinking_water |-> "yes"]]
NodeNearMeridian ==
    [type |-> "node", id |-> 7, lat |-> 5147790, lon |-> 10,
     tags |-> [amenity |-> "drinking_water", drinking_water |-> "yes"]]

FetchRoutes == Routes \cup {MeridianRoute}

\* the bodies of Spec, a body that lists one record twice, and a body with
\* the records at the prime meridian
FetchResponses ==
    Responses \cup
    {[kind |-> "json", data |-> [elements |-> <<NodeNearStart, NodeFee, NodeNearStart>>]],
     [kind |-> "json", data |-> [elements |-> <<NodeNearMeridian, NodeOnMeridian>>]]}

InitFetch ==
    /\ \E gpxData \in FetchRoutes, bufferDistance \in Buffers, filterPreset \in PresetIds,
          response \in FetchResponses :
          fw = [pc |-> "call", gpxData |-> gpxData, bufferDistance |-> bufferDistance,
                filterPreset |-> filterPreset, response |-> response,
                outcome |-> "", result |-> <<>>, storage |-> <<>>]
    /\ PwpIdle
    /\ KeysIdle
    /\ AppIdle
    /\ GpxIdle
    /\ GeoIdle
    /\ PosIdle
    /\ CacheIdle

\* findWaterPoints(gpxData, bufferDistance, filterPreset) from its call to its
\* return: the cache is empty, the fetch settles with the response
FindOnEmptyCache ==
    /\ fw.pc = "call"
    /\ \E sync \in {FindSync(fw.gpxData, fw.bufferDistance, fw.filterPreset, <<>>, 0, "none")} :
        \E r \in {FindSettle([gpxData |-> fw.gpxData, bufferDistance |-> fw.bufferDistance,
                              filterPreset |-> fw.filterPreset,
                              cacheKey |-> CacheKey(fw.gpxData.bounds, fw.bufferDistance,
                                                    fw.filterPreset)],
                             fw.response, sync.storage, 0, "none")} :
            /\ sync.outcome = "fetch"
            /\ fw' = [fw EXCEPT !.pc = "done", !.outcome = r.outcome,
                                !.result = r.value, !.storage = r.storage]
    /\ UNCHANGED <<pwp, keys, app, gpx, geo, pos, cacheVars>>

NextFetch == FindOnEmptyCache

SpecFetch == InitFetch /\ [][NextFetch]_vars

\* the records of the response, when it is a JSON object with elements
FwElements ==
    IF fw.response.kind = "json" /\ "elements" \in DOMAIN fw.response.data
    THEN fw.response.data.elements
    ELSE <<>>

\* no two records of the response share an identifier
ResponseIdsDistinct ==
    \A i \in DOMAIN FwElements, j \in DOMAIN FwElements :
        i # j => FwElements[i].id # FwElements[j].id

\* no two points of the returned list share an identifier
ResultIdsDistinct ==
    \A i \in DOMAIN fw.result, j \in DOMAIN fw.result :
        i # j => fw.result[i].id # fw.result[j].id

PassingIds ==
    {ToString(FwElements[i].id) :
        i \in {j \in DOMAIN FwElements :
                 /\ FwElements[j].type = "node"
                 /\ processWaterPoint(FwElements[j], fw.gpxData, fw.bufferDistance,
                                      FindPreset(fw.filterPreset)) # Null}}

\* C15 (as claimed): on a successful fetch the returned list holds exactly the
\* point records of the response that the four rules do not reject, whatever
\* their coordinates.  findWaterPoints also skips a node whose lat or lon is 0
\* (element.lat && element.lon), here the record on the prime meridian.
C15_CompleteOnMiss ==
    (fw.pc = "done" /\ fw.outcome = "fulfilled") =>
        {fw.result[i].id : i \in DOMAIN fw.result} = PassingIds

(***************************************************************************)
(* Specification SpecApp: the application state of App, the upload and      *)
(* clear handlers of CircularControls and the debounced refetch effect of   *)
(* SettingsPanel, around findWaterPoints and the cache.                     *)
(* React 18 (README) batches the state updates of one task and of the       *)
(* microtasks it runs, and renders once afterwards; an effect runs again    *)
(* after a render only if one of its dependencies changed, its previous     *)
(* cleanup first.  Each action is one task followed by that render.         *)
(***************************************************************************)
\* the files the user can pick: a track, a track document without points
\* (parseGPX returns null) and a file whose name does not end in .gpx
Files ==
    {[name |-> "example.gpx", parsed |-> <<ExampleRoute>>],
     [name |-> "empty.gpx", parsed |-> Null],
     [name |-> "notes.txt", parsed |-> Null]}

\* file.name.toLowerCase().endsWith('.gpx'), on the lower-case names of Files
EndsWithGpx(name) ==
    Len(name) >= 4 /\ SubSeq(name, Len(name) - 3, Len(name)) = ".gpx"

\* the slider positions and the presets the user picks
SliderValues == Buffers
PresetChoices == {"potable-only", "all-sources"}

\* how the remote request of the application can settle: fetch rejects, or a
\* body with one record, 100 m from the example route
AppResponses ==
    {[kind |-> "networkError"],
     [kind |-> "json", data |-> [elements |-> <<NodeAtBuffer>>]]}

\* bounds of the model: the identifiers setTimeout hands out before they
\* repeat, and the asynchronous functions running at once
MaxTimeoutId == 1
MaxTasks == 2

\* toast.success / toast.error
Toast(level, message) == <<[level |-> level, message |-> message]>>

\* app.last describes the last step: the handler that ran, the identifiers
\* of the timers pending before it, the findWaterPoints call it began (and
\* whether that issued a remote request, and whether the user had changed the
\* route, the buffer or the preset since the previous call with the current
\* combination began), how the cycle it ended ended, the call whose result it
\* installed with onWaterPointsLoad, and the toast it showed.
\* Quiet(op, a) is app.last after a handler that calls no findWaterPoints
Quiet(op, a) ==
    [op |-> op, pendingBefore |-> {t.timeoutId : t \in a.timers},
     call |-> Null, request |-> FALSE, changed |-> FALSE,
     ended |-> "none", installed |-> Null, toast |-> Null]

InitApp ==
    /\ app = [pc |-> "mounted",
              gpxData |-> Null,
              waterPoints |-> <<>>,
              bufferDistance |-> 15,
              waterFilterPreset |-> "potable-only",
              isLoading |-> FALSE,
              isSettingsOpen |-> FALSE,
              fileDialog |-> FALSE,
              timers |-> {},
              cleanup |-> Null,
              nextTimeoutId |-> 0,
              tasks |-> <<>>,
              userChanged |-> FALSE,
              last |-> [op |-> "mount", pendingBefore |-> {}, call |-> Null,
                       request |-> FALSE, changed |-> FALSE, ended |-> "none",
                       installed |-> Null, toast |-> Null]]
    /\ localStorage = <<>>
    /\ now = 0
    /\ pending = {}
    /\ lastOp = [op |-> "init"]
    /\ stored = <<>>
    /\ requests = 0
    /\ PwpIdle
    /\ KeysIdle
    /\ FwIdle
    /\ GpxIdle
    /\ GeoIdle
    /\ PosIdle

\* the dependencies of the refetch effect that are state
EffectDeps(a) == <<a.bufferDistance, a.waterFilterPreset, a.gpxData, a.isLoading>>

\* a variant of EffectCleanup that returns no cleanup: timers are left pending
EffectCleanupMissing(a) ==
    a.timers

\* the cleanup the previous run of the effect returned: clearTimeout(timeoutId)
EffectCleanup(a) ==
    {t \in a.timers : ~ (a.cleanup # Null /\ t.timeoutId = a.cleanup[1])}

\* the refetch effect of SettingsPanel runs: the previous cleanup, then the
\* body, which sets a timer capturing the props of this render
RefetchEffect(a) ==
    LET kept == EffectCleanup(a)
    IN  IF Truthy(a.gpxData) /\ ~ a.isLoading
        THEN [a EXCEPT !.timers = kept \cup
                                   {[timeoutId |-> a.nextTimeoutId,
                                     gpxData |-> a.gpxData[1],
                                     bufferDistance |-> a.bufferDistance,
                                     waterFilterPreset |-> a.waterFilterPreset]},
                       !.cleanup = <<a.nextTimeoutId>>,
                       !.nextTimeoutId = (a.nextTimeoutId + 1) % (MaxTimeoutId + 1)]
        ELSE [a EXCEPT !.timers = kept, !.cleanup = Null]

\* the render after a task: old is the state rendered before, new the state
\* after the task's updates; freshRoute says that gpxData is a new object
Render(old, new, freshRoute) ==
    IF EffectDeps(old) # EffectDeps(new) \/ freshRoute
    THEN RefetchEffect(new)
    ELSE new

\* the sequence s without its i-th element
Without(s, i) == SubSeq(s, 1, i - 1) \o SubSeq(s, i + 1, Len(s))

\* the arguments a findWaterPoints call was made with
CallOf(by, gpxData, bufferDistance, filterPreset) ==
    [by |-> by, at |-> "fetch", gpxData |-> gpxData, bufferDistance |-> bufferDistance,
     filterPreset |-> filterPreset,
     cacheKey |-> CacheKey(gpxData.bounds, bufferDistance, filterPreset)]

\* the buffer distance or the preset of the application is no longer the
\* one the call was made with
Stale(call, a) ==
    call.bufferDistance # a.bufferDistance \/ call.filterPreset # a.waterFilterPreset

\* the toast after findWaterPoints returned waterPoints
FoundToast(by, waterPoints) ==
    IF by = "upload"
    THEN Toast("success", "Found " \o ToString(Len(waterPoints))
                              \o " water points along the route")
    ELSE Toast("success", "Updated: Found " \o ToString(Len(waterPoints))
                              \o " water points")

\* the settings button, and the panel's close control: setIsSettingsOpen.
\* (The file dialog of the browser is modal: while it is open the page takes
\* no clicks.  The panel is a modal sheet: the controls behind it take none.)
ToggleSettings ==
    /\ app.pc = "mounted"
    /\ ~ app.fileDialog
    /\ app' = [app EXCEPT !.isSettingsOpen = ~ @, !.last = Quiet("toggleSettings", app)]
    /\ UNCHANGED <<pwp, keys, fw, gpx, geo, pos, cacheVars>>

\* the slider of the open panel: handleBufferDistanceChange
MoveSlider(distance) ==
    /\ app.pc = "mounted"
    /\ app.isSettingsOpen
    /\ distance # app.bufferDistance
    /\ app' = Render(app, [app EXCEPT !.bufferDistance = distance,
                                      !.userChanged = TRUE,
                                      !.last = Quiet("moveSlider", app)], FALSE)
    /\ UNCHANGED <<pwp, keys, fw, gpx, geo, pos, cacheVars>>

\* the select of the open panel: onWaterFilterPresetChange
SelectPreset(preset) ==
    /\ app.pc = "mounted"
    /\ app.isSettingsOpen
    /\ preset # app.waterFilterPreset
    /\ app' = Render(app, [app EXCEPT !.waterFilterPreset = preset,
                                      !.userChanged = TRUE,
                                      !.last = Quiet("selectPreset", app)], FALSE)
    /\ UNCHANGED <<pwp, keys, fw, gpx, geo, pos, cacheVars>>

\* the upload button (disabled while loading, behind the open panel):
\* handleUploadClick opens the file dialog
ClickUpload ==
    /\ app.pc = "mounted"
    /\ ~ app.isLoading
    /\ ~ app.isSettingsOpen
    /\ ~ app.fileDialog
    /\ app' = [app EXCEPT !.fileDialog = TRUE, !.last = Quiet("clickUpload", app)]
    /\ UNCHANGED <<pwp, keys, fw, gpx, geo, pos, cacheVars>>

\* the user closes the file dialog without a file: no change event
CancelDialog ==
    /\ app.pc = "mounted"
    /\ app.fileDialog
    /\ app' = [app EXCEPT !.fileDialog = FALSE, !.last = Quiet("cancelDialog", app)]
    /\ UNCHANGED <<pwp, keys, fw, gpx, geo, pos, cacheVars>>

\* the user picks a file: input.onchange, handleFileUpload up to its first
\* await.  handleFileUpload is the closure of the render in which the upload
\* button was clicked; its bufferDistance and waterFilterPreset are those of
\* that render, which are the current ones, the dialog having blocked the page
ChooseFile(file) ==
    /\ app.pc = "mounted"
    /\ app.fileDialog
    /\ IF ~ EndsWithGpx(file.name)
       THEN app' = [app EXCEPT !.fileDialog = FALSE,
                               !.last = [Quiet("chooseFile", app) EXCEPT
                                   !.toast = Toast("error", "Please upload a valid GPX file")]]
       ELSE /\ Len(app.tasks) < MaxTasks
            /\ app' = Render(app, [app EXCEPT !.fileDialog = FALSE,
                                              !.isLoading = TRUE,
                                              !.tasks = Append(@, [by |-> "upload", at |-> "text",
                                                    file |-> file,
                                                    bufferDistance |-> app.bufferDistance,
                                                    filterPreset |-> app.waterFilterPreset]),
                                              !.last = Quiet("chooseFile", app)], FALSE)
    /\ UNCHANGED <<pwp, keys, fw, gpx, geo, pos, cacheVars>>

\* a variant of UploadFailed without the finally block: the loading flag is
\* left set
UploadFailedStillLoading(a, i) ==
    [a EXCEPT !.tasks = Without(@, i),
              !.last = [Quiet("fileRead", a) EXCEPT
                  !.toast = Toast("error", "Invalid GPX file or no track data found")]]

\* handleFileUpload after parseGPX returned null (or a GPXData without
\* coordinates): the error toast, the return, the finally block
UploadFailed(a, i) ==
    [a EXCEPT !.tasks = Without(@, i),
              !.isLoading = FALSE,
              !.last = [Quiet("fileRead", a) EXCEPT
                  !.toast = Toast("error", "Invalid GPX file or no track data found")]]

\* file.text() settles: handleFileUpload from parseGPX to its second await, or
\* to its end when parseGPX returns null or findWaterPoints returns from the
\* cache
FileRead(i) ==
    /\ app.pc = "mounted"
    /\ i \in DOMAIN app.tasks
    /\ app.tasks[i].at = "text"
    /\ IF app.tasks[i].file.parsed = Null
       THEN /\ app' = Render(app, UploadFailed(app, i), FALSE)
            /\ UNCHANGED localStorage
       ELSE \E task \in {app.tasks[i]}, gpxData \in {app.tasks[i].file.parsed[1]} :
            \E sync \in {FindSync(gpxData, task.bufferDistance, task.filterPreset,
                                  localStorage, now, "none")} :
                /\ localStorage' = sync.storage
                /\ IF sync.outcome = "fetch"
                   THEN app' = Render(app,
                            [app EXCEPT !.gpxData = <<gpxData>>,
                                        !.tasks[i] = CallOf("upload", gpxData, task.bufferDistance,
                                                            task.filterPreset),
                                        !.userChanged = Stale(task, app),
                                        !.last = [Quiet("fileRead", app) EXCEPT
                                            !.call = <<CallOf("upload", gpxData,
                                                        task.bufferDistance, task.filterPreset)>>,
                                            !.request = TRUE, !.changed = TRUE]],
                            TRUE)
                   ELSE app' = Render(app,
                            [app EXCEPT !.gpxData = <<gpxData>>,
                                        !.waterPoints = sync.value,
                                        !.isLoading = FALSE,
                                        !.tasks = Without(@, i),
                                        !.userChanged = Stale(task, app),
                                        !.last = [Quiet("fileRead", app) EXCEPT
                                            !.call = <<CallOf("upload", gpxData,
                                                        task.bufferDistance, task.filterPreset)>>,
                                            !.changed = TRUE,
                                            !.ended = sync.outcome,
                                            !.installed = <<CallOf("upload", gpxData,
                                                             task.bufferDistance,
                                                             task.filterPreset)>>,
                                            !.toast = FoundToast("upload", sync.value)]],
                            TRUE)
    /\ UNCHANGED <<now, pending, lastOp, stored, requests, pwp, keys, fw, gpx, geo, pos>>

\* a debounce timer fires: refetchWaterPoints up to its await, or to its end
\* when findWaterPoints returns from the cache
TimerFires(t) ==
    /\ app.pc = "mounted"
    /\ t \in app.timers
    /\ \E sync \in {FindSync(t.gpxData, t.bufferDistance, t.waterFilterPreset,
                             localStorage, now, "none")} :
        /\ localStorage' = sync.storage
        /\ IF sync.outcome = "fetch"
           THEN /\ Len(app.tasks) < MaxTasks
                /\ app' = Render(app,
                            [app EXCEPT !.timers = @ \ {t},
                                        !.isLoading = TRUE,
                                        !.tasks = Append(@, CallOf("refetch", t.gpxData,
                                                                   t.bufferDistance,
                                                                   t.waterFilterPreset)),
                                        !.userChanged = FALSE,
                                        !.last = [Quiet("timerFires", app) EXCEPT
                                            !.call = <<CallOf("refetch", t.gpxData,
                                                        t.bufferDistance, t.waterFilterPreset)>>,
                                            !.request = TRUE,
                                            !.changed = app.userChanged]],
                            FALSE)
           ELSE app' = Render(app,
                            [app EXCEPT !.timers = @ \ {t},
                                        !.waterPoints = sync.value,
                                        !.isLoading = FALSE,
                                        !.userChanged = FALSE,
                                        !.last = [Quiet("timerFires", app) EXCEPT
                                            !.call = <<CallOf("refetch", t.gpxData,
                                                        t.bufferDistance, t.waterFilterPreset)>>,
                                            !.changed = app.userChanged,
                                            !.ended = sync.outcome,
                                            !.installed = <<CallOf("refetch", t.gpxData,
                                                             t.bufferDistance,
                                                             t.waterFilterPreset)>>,
                                            !.toast = FoundToast("refetch", sync.value)]],
                            FALSE)
    /\ UNCHANGED <<now, pending, lastOp, stored, requests, pwp, keys, fw, gpx, geo, pos>>

\* the fetch of a findWaterPoints call settles: findWaterPoints runs to its
\* return and its caller to the end of its finally block
RemoteSettles(i, response) ==
    /\ app.pc = "mounted"
    /\ i \in DOMAIN app.tasks
    /\ app.tasks[i].at = "fetch"
    /\ \E call \in {app.tasks[i]} :
       \E r \in {FindSettle(call, response, localStorage, now, "none")} :
        /\ localStorage' = r.storage
        /\ app' = Render(app,
                    [app EXCEPT !.tasks = Without(@, i),
                                !.waterPoints = r.value,
                                !.isLoading = FALSE,
                                !.last = [Quiet("remoteSettles", app) EXCEPT
                                    !.ended = r.outcome,
                                    !.installed = <<call>>,
                                    !.toast = FoundToast(call.by, r.value)]],
                    FALSE)
    /\ UNCHANGED <<now, pending, lastOp, stored, requests, pwp, keys, fw, gpx, geo, pos>>

\* the clear button (disabled without a route, behind the open panel), the
\* user confirming: handleClearClick
ClickClear ==
    /\ app.pc = "mounted"
    /\ Truthy(app.gpxData)
    /\ ~ app.isSettingsOpen
    /\ ~ app.fileDialog
    /\ app' = Render(app, [app EXCEPT !.gpxData = Null,
                                      !.waterPoints = <<>>,
                                      !.userChanged = TRUE,
                                      !.last = [Quiet("clickClear", app) EXCEPT
                                          !.toast = Toast("success", "Route cleared")]],
                     FALSE)
    /\ UNCHANGED <<pwp, keys, fw, gpx, geo, pos, cacheVars>>

NextApp ==
    \/ ToggleSettings
    \/ \E distance \in SliderValues : MoveSlider(distance)
    \/ \E preset \in PresetChoices : SelectPreset(preset)
    \/ ClickUpload
    \/ CancelDialog
    \/ \E file \in Files : ChooseFile(file)
    \/ \E i \in 1..MaxTasks : FileRead(i)
    \/ \E t \in app.timers : TimerFires(t)
    \/ \E i \in 1..MaxTasks, response \in AppResponses : RemoteSettles(i, response)
    \/ ClickClear

SpecApp == InitApp /\ [][NextApp]_vars

(***************************************************************************)
(* Properties of the application (specification SpecApp)                    *)
(***************************************************************************)
\* the findWaterPoints calls that have not returned
InFlight == {i \in DOMAIN app.tasks : app.tasks[i].at = "fetch"}

\* the combination the application shows: route, buffer distance, preset
Shown == <<app.gpxData, app.bufferDistance, app.waterFilterPreset>>

\* the combination a findWaterPoints call was made with
Asked(call) == <<(<<call.gpxData>>), call.bufferDistance, call.filterPreset>>

\* C16: no automatic retries.  A step begins a query cycle (calls
\* findWaterPoints), and with it any remote request, only if the user has
\* changed the route, the buffer distance or the filter preset since the
\* previous cycle began.
C16_NoAutomaticRetries ==
    (app.pc = "mounted" /\ app.last.call # Null) => app.last.changed

\* C17: a query cycle that ends in Failed shows its caller a warning: the
\* toast after it is not the success toast a Fulfilled cycle without points
\* gets.
C17_FailedSurfacesWarning ==
    (app.pc = "mounted" /\ app.last.ended = "failed") =>
        /\ app.last.toast # Null
        /\ app.last.toast[1].level # "success"

\* C18: debounce.  At most one debounce timer is pending at any time, and it
\* was set for the combination the application shows, nothing loading; a
\* change of the buffer distance or of the preset cancels every timer that
\* was pending before it; and a timer that fires begins exactly one
\* findWaterPoints call, for the combination requested last.
C18_Debounce ==
    app.pc = "mounted" =>
        /\ Cardinality(app.timers) <= 1
        /\ \A t \in app.timers :
              /\ ~ app.isLoading
              /\ <<(<<t.gpxData>>), t.bufferDistance, t.waterFilterPreset>> = Shown
        /\ app.last.op \in {"moveSlider", "selectPreset"} =>
              /\ \A t \in app.timers : t.timeoutId \notin app.last.pendingBefore
              /\ app.last.call = Null
        /\ app.last.op = "timerFires" =>
              /\ Cardinality(app.last.pendingBefore) = 1
              /\ app.timers = {}
              /\ app.last.call # Null
              /\ Asked(app.last.call[1]) = Shown

\* a change of the slider or of the preset arrived while the timer of an
\* earlier change was pending: that timer is gone, one timer is pending
C18_Witness ==
    /\ app.pc = "mounted"
    /\ app.last.op \in {"moveSlider", "selectPreset"}
    /\ app.last.pendingBefore # {}
    /\ Cardinality(app.timers) = 1
    /\ app.userChanged

\* C19: at most one query cycle is in flight: there are never two
\* findWaterPoints calls that have not returned.
C19_OneCycleInFlight ==
    app.pc = "mounted" => Cardinality(InFlight) <= 1

\* C20: stale results are discarded.  A result installed as the active Water
\* Point set comes from a call made with the combination the application
\* shows: no result of a call superseded by a change of route, buffer
\* distance or preset, or by clearing the route, is installed.
C20_StaleResultsDiscarded ==
    (app.pc = "mounted" /\ app.last.installed # Null) =>
        Asked(app.last.installed[1]) = Shown

C21_CycleStateMachine ==
    app.pc = "mounted" =>
        /\ app.last.ended \in {"none", "cached", "fulfilled", "failed"}
        /\ (app.last.call # Null /\ app.last.ended = "none") =>
              \E i \in InFlight : app.tasks[i] = app.last.call[1]
        /\ (app.last.call # Null /\ app.last.ended # "none") =>
              /\ app.last.ended = "cached"
              /\ ~ app.isLoading
        /\ app.last.op = "remoteSettles" =>
              /\ app.last.ended \in {"fulfilled", "failed"}
              /\ ~ app.isLoading
        /\ (app.last.op = "fileRead" /\ app.last.call = Null) => ~ app.isLoading
        /\ \A i \in InFlight : ENABLED (\E response \in AppResponses : RemoteSettles(i, response))

\* a cycle that was Fetching has ended Fulfilled with the loading flag false
C21_Witness ==
    /\ app.pc = "mounted"
    /\ app.last.op = "remoteSettles"
    /\ app.last.ended = "fulfilled"
    /\ Len(app.last.installed[1].gpxData.coordinates) > 0
    /\ ~ app.isLoading

(***************************************************************************)
(* Track parser: parseGPX                                                   *)
(* A document is what DOMParser makes of the text: malformed (the parsed    *)
(* document holds a parsererror element), or the point elements in document *)
(* order, each with its element name and its lat and lon attributes         *)
(* (Undefined for an attribute the element lacks).  Numbers are integers in *)
(* 1e-5 degree; a parsed number is <<>> for NaN, <<Infinity>> for Infinity. *)
(***************************************************************************)
NaN == <<>>

Digits == "0123456789"

\* the decimal digit ch stands for, or -1
DigitValue(ch) == IndexOf(Digits, ch, 1) - 1

RECURSIVE DigitRun(_, _)
\* the position after the run of digits of s that starts at position i
DigitRun(s, i) ==
    IF i <= Len(s) /\ DigitValue(SubSeq(s, i, i)) >= 0 THEN DigitRun(s, i + 1) ELSE i

RECURSIVE DigitsValue(_, _, _, _)
\* the number written by the digits of s at positions i..(j - 1), after acc
DigitsValue(s, i, j, acc) ==
    IF i >= j THEN acc
    ELSE DigitsValue(s, i + 1, j, acc * 10 + DigitValue(SubSeq(s, i, i)))

\* the digits of s at positions i..(j - 1) as a fraction, in units of 1e-5:
\* the first five digits, padded with zeros
FractionValue(s, i, j) ==
    LET k == Min(j, i + 5)
        shown == DigitsValue(s, i, k, 0)
    IN  shown * (10 ^ (5 - (k - i)))

\* parseFloat(s): an optional sign, then Infinity or the longest prefix of
\* digits with an optional fraction; NaN when no number starts the string.
\* (Leading blanks and exponents do not occur in the attributes of this model.)
ParseFloat(s) ==
    LET signed == Len(s) >= 1 /\ SubSeq(s, 1, 1) \in {"-", "+"}
        sign == IF signed /\ SubSeq(s, 1, 1) = "-" THEN -1 ELSE 1
        first == IF signed THEN 2 ELSE 1
        intEnd == DigitRun(s, first)
        hasPoint == intEnd <= Len(s) /\ SubSeq(s, intEnd, intEnd) = "."
        fracEnd == IF hasPoint THEN DigitRun(s, intEnd + 1) ELSE intEnd
        hasDigits == intEnd > first \/ (hasPoint /\ fracEnd > intEnd + 1)
    IN  IF Len(s) >= first + 7 /\ SubSeq(s, first, first + 7) = "Infinity"
        THEN <<sign * Infinity>>
        ELSE IF ~ hasDigits THEN NaN
        ELSE <<sign * (DigitsValue(s, first, intEnd, 0) * 100000
                        + (IF hasPoint THEN FractionValue(s, intEnd + 1, fracEnd) ELSE 0))>>

\* point.getAttribute(name) || '0'
AttributeOrZero(point, name) ==
    IF TruthyString(point[name]) THEN point[name] ELSE "0"

\* querySelectorAll(name): the point elements of that name, in document order
QuerySelectorAll(document, name) ==
    SelectSeq(document.points, LAMBDA point : point.name = name)

\* a variant of SelectPoints that takes the route points along with the track
\* points
SelectPointsMixed(document) ==
    document.points

\* trkpts.length > 0 ? trkpts : xmlDoc.querySelectorAll('rtept')
SelectPoints(document) ==
    LET trkpts == QuerySelectorAll(document, "trkpt")
    IN  IF Len(trkpts) > 0 THEN trkpts ELSE QuerySelectorAll(document, "rtept")

RECURSIVE RetainLoop(_, _)
\* the forEach of parseGPX: the coordinates pushed and the running bounds
RetainLoop(points, acc) ==
    IF points = <<>> THEN acc
    ELSE LET point == Head(points)
             lat == ParseFloat(AttributeOrZero(point, "lat"))
             lon == ParseFloat(AttributeOrZero(point, "lon"))
         IN  IF lat # NaN /\ lon # NaN
             THEN RetainLoop(Tail(points),
                     [coordinates |-> Append(acc.coordinates, <<lon[1], lat[1]>>),
                      bounds |-> [north |-> Max(acc.bounds.north, lat[1]),
                                  south |-> Min(acc.bounds.south, lat[1]),
                                  east |-> Max(acc.bounds.east, lon[1]),
                                  west |-> Min(acc.bounds.west, lon[1])]])
             ELSE RetainLoop(Tail(points), acc)

\* parseGPX(gpxText): null (the catch block) or the GPXData; the name and the
\* total distance of the GPXData are left out
parseGPX(document) ==
    IF document.malformed THEN Null
    ELSE IF Len(QuerySelectorAll(document, "trkpt")) = 0
            /\ Len(QuerySelectorAll(document, "rtept")) = 0 THEN Null
    ELSE LET kept == RetainLoop(SelectPoints(document),
                                [coordinates |-> <<>>,
                                 bounds |-> [north |-> -Infinity, south |-> Infinity,
                                             east |-> -Infinity, west |-> Infinity]])
         IN  IF Len(kept.coordinates) = 0 THEN Null ELSE <<kept>>

(***************************************************************************)
(* Specification SpecParse: parseGPX applied to one document                *)
(***************************************************************************)
\* the lat and lon attributes of the point elements: two valid points, a
\* non-numeric latitude, a missing latitude, an infinite longitude
AttributePairs ==
    {<<"48.0", "2.0">>, <<"48.002", "2.001">>, <<"abc", "2.0">>,
     <<Undefined, "2.0">>, <<"48.0", "Infinity">>}

PointElements ==
    {[name |-> n, lat |-> a[1], lon |-> a[2]] : n \in {"trkpt", "rtept"}, a \in AttributePairs}

\* bound of the model: the point elements of a document
MaxPoints == 4

RECURSIVE SeqsUpTo(_, _)
\* the sequences over the set elems of length at most len
SeqsUpTo(elems, len) ==
    IF len = 0 THEN {<<>>}
    ELSE LET shorter == SeqsUpTo(elems, len - 1)
         IN  shorter \cup {Append(sq, x) : sq \in shorter, x \in elems}

Documents ==
    {[malformed |-> TRUE, points |-> <<>>]}
        \cup {[malformed |-> FALSE, points |-> ps] : ps \in SeqsUpTo(PointElements, MaxPoints)}

InitParse ==
    /\ \E document \in Documents : gpx = [pc |-> "call", document |-> document, result |-> Null]
    /\ PwpIdle
    /\ KeysIdle
    /\ FwIdle
    /\ AppIdle
    /\ GeoIdle
    /\ PosIdle
    /\ CacheIdle

\* the call returns
ParseGPX ==
    /\ gpx.pc = "call"
    /\ gpx' = [gpx EXCEPT !.pc = "done", !.result = parseGPX(gpx.document)]
    /\ UNCHANGED <<pwp, keys, fw, app, geo, pos, cacheVars>>

NextParse == ParseGPX

SpecParse == InitParse /\ [][NextParse]_vars

(***************************************************************************)
(* Properties of parseGPX (specification SpecParse)                         *)
(***************************************************************************)
\* the attribute is present and parses as a finite number
ParsesFinite(attribute) ==
    /\ attribute # Undefined
    /\ ParseFloat(attribute) # NaN
    /\ Abs(ParseFloat(attribute)[1]) # Infinity

\* both attributes of the point parse as finite numbers
ValidPoint(point) == ParsesFinite(point.lat) /\ ParsesFinite(point.lon)

\* the coordinate of a valid point
CoordinateOf(point) == <<ParseFloat(point.lon)[1], ParseFloat(point.lat)[1]>>

\* the points parseGPX reads: the track points, or else the route points
GpxSelected == SelectPoints(gpx.document)

\* the valid points among them, as coordinates
GpxValid ==
    LET valid == SelectSeq(GpxSelected, ValidPoint)
    IN  [i \in DOMAIN valid |-> CoordinateOf(valid[i])]

\* C22: track parsing retains exactly the points whose latitude and
\* longitude both parse as finite numbers: the Route's coordinates are those
\* of the valid points, in order, and its bounds are the extremes of those.
C22_RetainsValidPoints ==
    (gpx.pc = "done" /\ gpx.result # Null) =>
        /\ gpx.result[1].coordinates = GpxValid
        /\ gpx.result[1].bounds = GPXDataOf(GpxValid).bounds

\* the point is retained by the parse: neither attribute, read with its
\* default, is NaN
Survives(point) ==
    /\ ParseFloat(AttributeOrZero(point, "lat")) # NaN
    /\ ParseFloat(AttributeOrZero(point, "lon")) # NaN

GpxTrackPoints == QuerySelectorAll(gpx.document, "trkpt")
GpxRoutePoints == QuerySelectorAll(gpx.document, "rtept")

\* the elements the claim has parseGPX use
GpxSource == IF Len(GpxTrackPoints) > 0 THEN GpxTrackPoints ELSE GpxRoutePoints

GpxSurvivors == SelectSeq(GpxSource, Survives)

\* C23: parseGPX reads the track points when there is one, the route points
\* only when there is none, never both; it returns null, and no Route, exactly
\* when the document is malformed, has no point element of either kind, or
\* none of the elements it reads survives; otherwise the Route has one
\* coordinate per surviving element, in order.
C23_SourceSelectionAndFailure ==
    gpx.pc = "done" =>
        /\ gpx.result = Null <=>
              \/ gpx.document.malformed
              \/ Len(GpxTrackPoints) + Len(GpxRoutePoints) = 0
              \/ Len(GpxSurvivors) = 0
        /\ gpx.result # Null =>
              /\ Len(gpx.result[1].coordinates) = Len(GpxSurvivors)
              /\ \A i \in DOMAIN GpxSurvivors :
                    gpx.result[1].coordinates[i] =
                        <<ParseFloat(AttributeOrZero(GpxSurvivors[i], "lon"))[1],
                          ParseFloat(AttributeOrZero(GpxSurvivors[i], "lat"))[1]>>

\* a document with valid track points and valid route points: the Route has
\* the track points only
C23_Witness ==
    /\ gpx.pc = "done"
    /\ Len(SelectSeq(GpxTrackPoints, ValidPoint)) = 2
    /\ Len(SelectSeq(GpxRoutePoints, ValidPoint)) = 2
    /\ gpx.result # Null
    /\ Len(gpx.result[1].coordinates) = 2

\* a document whose track points all fail to parse, with valid route points:
\* no fallback, the parse fails
C23_NoFallbackWitness ==
    /\ gpx.pc = "done"
    /\ Len(GpxTrackPoints) > 0
    /\ Len(SelectSeq(GpxTrackPoints, Survives)) = 0
    /\ Len(SelectSeq(GpxRoutePoints, ValidPoint)) > 0
    /\ gpx.result = Null

\* the step is a rejection of the chosen file for its extension
RejectedStep ==
    /\ app'.last.op = "chooseFile"
    /\ app'.last.toast = Toast("error", "Please upload a valid GPX file")
    /\ app' # app

\* the step is the end of an upload whose file parseGPX could not parse
ParseFailedStep ==
    /\ app'.last.op = "fileRead"
    /\ app'.last.toast = Toast("error", "Invalid GPX file or no track data found")
    /\ app' # app

\* the frame of a failed upload: the route and the water points are left
\* unchanged and no findWaterPoints call is made
FailedUploadFrame ==
    /\ app'.gpxData = app.gpxData
    /\ app'.waterPoints = app.waterPoints
    /\ app'.last.call = Null
    /\ ~ app'.last.request
    /\ localStorage' = localStorage

OkResponses == {response \in AppResponses : response.kind = "json"}

NextAppOk ==
    \/ ToggleSettings
    \/ \E distance \in SliderValues : MoveSlider(distance)
    \/ \E preset \in PresetChoices : SelectPreset(preset)
    \/ ClickUpload
    \/ CancelDialog
    \/ \E file \in Files : ChooseFile(file)
    \/ \E i \in 1..MaxTasks : FileRead(i)
    \/ \E t \in app.timers : TimerFires(t)
    \/ \E i \in 1..MaxTasks, response \in OkResponses : RemoteSettles(i, response)
    \/ ClickClear

SpecAppOk == InitApp /\ [][NextAppOk]_vars

\* nothing is pending: no debounce timer, no upload or refetch running.  From
\* such a state only the user makes the application move
Settled ==
    /\ app.pc = "mounted"
    /\ app.timers = {}
    /\ app.tasks = <<>>

\* what findWaterPoints returns for the combination the application shows,
\* from the answer of the remote source or from the cache filled with it
ShownResult ==
    LET call == CallOf("refetch", app.gpxData[1], app.bufferDistance, app.waterFilterPreset)
    IN  UNION {{FindSettle(call, response, <<>>, now, "none").value} : response \in OkResponses}

RoundDiv(n, d) == (2 * n + d) \div (2 * d)

\* getClosestPointOnSegment(point, segmentStart, segmentEnd), all [lon, lat]:
\* the projection of the point on the segment, t clamped to [0, 1]; t is the
\* fraction clamped / den
getClosestPointOnSegment(point, segmentStart, segmentEnd) ==
    LET px == point[1]
        py == point[2]
        ax == segmentStart[1]
        ay == segmentStart[2]
        dx == segmentEnd[1] - ax
        dy == segmentEnd[2] - ay
        den == dx * dx + dy * dy
        clamped == Max(0, Min(den, (px - ax) * dx + (py - ay) * dy))
    IN  IF dx = 0 /\ dy = 0 THEN segmentStart
        ELSE <<ax + RoundDiv(clamped * dx, den), ay + RoundDiv(clamped * dy, den)>>

RECURSIVE ClosestLoop(_, _, _, _, _)
\* the first loop of findDistanceAlongRoute from segment i on (segments are
\* counted from 1 here, from 0 in the code): the closest segment so far
ClosestLoop(lat, lon, coordinates, i, best) ==
    IF i > Len(coordinates) - 1 THEN best
    ELSE LET closestPoint == getClosestPointOnSegment(<<lon, lat>>, coordinates[i],
                                                      coordinates[i + 1])
             distance == calculateDistance(lat, lon, closestPoint[2], closestPoint[1])
         IN  ClosestLoop(lat, lon, coordinates, i + 1,
                         IF distance < best.minDistance
                         THEN [minDistance |-> distance, closestSegmentIndex |-> i,
                               closestPointOnSegment |-> closestPoint]
                         ELSE best)

RECURSIVE SegmentsLength(_, _, _)
\* the lengths of the segments i..(last - 1) of the coordinates, added up
SegmentsLength(coordinates, i, last) ==
    IF i >= last THEN 0
    ELSE calculateDistance(Lat(coordinates[i]), Lon(coordinates[i]),
                           Lat(coordinates[i + 1]), Lon(coordinates[i + 1]))
            + SegmentsLength(coordinates, i + 1, last)

\* findDistanceAlongRoute(lat, lon, gpxData)
findDistanceAlongRoute(lat, lon, gpxData) ==
    IF Len(gpxData.coordinates) = 0 THEN 0
    ELSE LET best == ClosestLoop(lat, lon, gpxData.coordinates, 1,
                                 [minDistance |-> Infinity, closestSegmentIndex |-> 1,
                                  closestPointOnSegment |-> <<0, 0>>])
             start == gpxData.coordinates[best.closestSegmentIndex]
         IN  SegmentsLength(gpxData.coordinates, 1, best.closestSegmentIndex)
                + calculateDistance(Lat(start), Lon(start),
                                    best.closestPointOnSegment[2],
                                    best.closestPointOnSegment[1])

\* the totalDistance parseGPX computes for the coordinates
TotalDistance(coordinates) == SegmentsLength(coordinates, 1, Len(coordinates))

\* findCurrentPositionOnRoute(userLat, userLon, gpxData), gpxData null or a
\* GPXData
findCurrentPositionOnRoute(userLat, userLon, gpxData) ==
    IF ~ Truthy(gpxData) \/ Len(gpxData[1].coordinates) = 0 THEN Null
    ELSE <<[lat |-> userLat, lon |-> userLon,
            distanceAlongRoute |-> findDistanceAlongRoute(userLat, userLon, gpxData[1])]>>

(***************************************************************************)
(* Specification SpecGeo: findDistanceAlongRoute applied to one route and   *)
(* one point                                                                *)
(***************************************************************************)
\* the coordinates routes are made of, [lon, lat], within 200 m of each other
GeoCoordinates ==
    {<<200000, 4800000>>, <<200100, 4800000>>, <<200100, 4800100>>, <<200200, 4800050>>}

\* the points measured, [lon, lat]: on the route, beside it, before its
\* start, past its end
GeoPoints ==
    {<<200050, 4800000>>, <<200050, 4800030>>, <<199900, 4799950>>,
     <<200300, 4800100>>, <<200100, 4800060>>}

\* bound of the model: the coordinates of a route
MaxCoordinates == 3

GeoRoutes == SeqsUpTo(GeoCoordinates, MaxCoordinates) \ {<<>>}

InitGeo ==
    /\ \E coordinates \in GeoRoutes, point \in GeoPoints :
          geo = [pc |-> "call", gpxData |-> GPXDataOf(coordinates),
                 lat |-> point[2], lon |-> point[1], result |-> 0]
    /\ PwpIdle
    /\ KeysIdle
    /\ FwIdle
    /\ AppIdle
    /\ GpxIdle
    /\ PosIdle
    /\ CacheIdle

\* the call returns
FindDistanceAlongRoute ==
    /\ geo.pc = "call"
    /\ geo' = [geo EXCEPT !.pc = "done",
                          !.result = findDistanceAlongRoute(geo.lat, geo.lon, geo.gpxData)]
    /\ UNCHANGED <<pwp, keys, fw, app, gpx, pos, cacheVars>>

NextGeo == FindDistanceAlongRoute

SpecGeo == InitGeo /\ [][NextGeo]_vars

\* C30: for a route with at least one coordinate, findDistanceAlongRoute
\* returns a value between 0 and the total length of the route, both
\* included; for a route of a single coordinate it returns 0.
C30_WithinRouteLength ==
    (geo.pc = "done" /\ Len(geo.gpxData.coordinates) >= 1) =>
        /\ 0 <= geo.result
        /\ geo.result <= TotalDistance(geo.gpxData.coordinates)
        /\ Len(geo.gpxData.coordinates) = 1 => geo.result = 0

(***************************************************************************)
(* Specification SpecLocate: the route, the current position and the        *)
(* geolocation requests of CircularControls                                 *)
(***************************************************************************)
\* the routes an upload can load
LocateRoutes ==
    {GPXDataOf(<< <<200000, 4800000>>, <<200100, 4800000>> >>),
     GPXDataOf(<< <<200100, 4800000>>, <<200100, 4800100>>, <<200200, 4800050>> >>)}

\* the position fixes of the device, [lon, lat]
Fixes == {<<200050, 4800030>>, <<200300, 4800100>>}

\* bound of the model: the geolocation requests not yet answered
MaxLocates == 2

\* pos.requests holds, for each getCurrentPosition call not yet answered, the
\* gpxData of the render whose handleLocateClick made it: its callbacks
\* close over that value
InitLocate ==
    /\ \E supported \in BOOLEAN :
          pos = [pc |-> "mounted", geolocation |-> supported, gpxData |-> Null,
                 currentPosition |-> Null, requests |-> <<>>, toast |-> Null]
    /\ PwpIdle
    /\ KeysIdle
    /\ FwIdle
    /\ AppIdle
    /\ GpxIdle
    /\ GeoIdle
    /\ CacheIdle

\* an upload succeeds: handleFileUpload calls onGpxLoad(gpxData); it never
\* calls onCurrentPositionChange
RouteLoaded(gpxData) ==
    /\ pos.pc = "mounted"
    /\ pos' = [pos EXCEPT !.gpxData = <<gpxData>>,
                          !.toast = Toast("success", "Found water points along the route")]
    /\ UNCHANGED <<pwp, keys, fw, app, gpx, geo, cacheVars>>

\* the clear button (disabled without a route), the user confirming:
\* handleClearClick
LocateClear ==
    /\ pos.pc = "mounted"
    /\ Truthy(pos.gpxData)
    /\ pos' = [pos EXCEPT !.gpxData = Null, !.currentPosition = Null,
                          !.toast = Toast("success", "Route cleared")]
    /\ UNCHANGED <<pwp, keys, fw, app, gpx, geo, cacheVars>>

\* the locate button: handleLocateClick
ClickLocate ==
    /\ pos.pc = "mounted"
    /\ IF ~ pos.geolocation
       THEN pos' = [pos EXCEPT !.toast = Toast("error",
                                    "Geolocation is not supported by this browser")]
       ELSE /\ Len(pos.requests) < MaxLocates
            /\ pos' = [pos EXCEPT !.requests = Append(@, pos.gpxData)]
    /\ UNCHANGED <<pwp, keys, fw, app, gpx, geo, cacheVars>>

\* the success callback of request i with the position fix: gpxData is the
\* one of the render in which the button was clicked
LocateSuccess(p, i, fix) ==
    [p EXCEPT !.requests = Without(@, i),
              !.toast = Toast("success", "Located"),
              !.currentPosition = IF Truthy(p.requests[i])
                                  THEN findCurrentPositionOnRoute(fix[2], fix[1], p.requests[i])
                                  ELSE @]

\* the device answers request i with a position
PositionFound(i, fix) ==
    /\ pos.pc = "mounted"
    /\ i \in DOMAIN pos.requests
    /\ pos' = LocateSuccess(pos, i, fix)
    /\ UNCHANGED <<pwp, keys, fw, app, gpx, geo, cacheVars>>

\* the device answers request i with an error
PositionError(i) ==
    /\ pos.pc = "mounted"
    /\ i \in DOMAIN pos.requests
    /\ pos' = [pos EXCEPT !.requests = Without(@, i),
                          !.toast = Toast("error", "Unable to retrieve your location")]
    /\ UNCHANGED <<pwp, keys, fw, app, gpx, geo, cacheVars>>

NextLocate ==
    \/ \E gpxData \in LocateRoutes : RouteLoaded(gpxData)
    \/ LocateClear
    \/ ClickLocate
    \/ \E i \in 1..MaxLocates, fix \in Fixes : PositionFound(i, fix)
    \/ \E i \in 1..MaxLocates : PositionError(i)

SpecLocate == InitLocate /\ [][NextLocate]_vars

\* C25: the current position is absent whenever no route is loaded:
\* findCurrentPositionOnRoute returns null for a missing route and for a route
\* without coordinates, and in every state of the application a current
\* position implies a loaded route.
C25_PositionNeedsRoute ==
    pos.pc = "mounted" =>
        /\ \A fix \in Fixes :
              /\ findCurrentPositionOnRoute(fix[2], fix[1], Null) = Null
              /\ findCurrentPositionOnRoute(fix[2], fix[1],
                     <<[coordinates |-> <<>>,
                        bounds |-> [north |-> -Infinity, south |-> Infinity,
                                    east |-> -Infinity, west |-> Infinity]]>>) = Null
        /\ pos.currentPosition # Null => Truthy(pos.gpxData)

(***************************************************************************)
(* The result of a call and the route of the call (specification Spec)      *)
(***************************************************************************)
\* C26: every water point a findWaterPoints call returns, from the cache or
\* from a fetch, lies within the buffer distance of the route passed to that
\* call, by its minimum distance to the vertices of that route, and its
\* stored distance from the route and distance from the start are the values
\* for that route; also when another route with the same rounded bounding box
\* was queried earlier within the lifetime of the entry.
C26_ResultForTheRouteOfTheCall ==
    (/\ lastOp.op \in {"findWaterPoints", "fetchSettled"}
     /\ lastOp.outcome \in {"cached", "fulfilled"}) =>
        \A i \in DOMAIN lastOp.value :
            LET point == lastOp.value[i]
                fromRoute == calculateMinDistanceFromRoute(point.lat, point.lon, lastOp.gpxData)
            IN  /\ fromRoute <= lastOp.bufferDistance
                /\ point.distanceFromRoute = fromRoute
                /\ point.distanceFromStart =
                      calculateDistanceFromStart(point.lat, point.lon, lastOp.gpxData)

===============================================================================
